---- MODULE Spec2Model ----
(***************************************************************************)
(* A model of pomodoro-panda's timer state machine (TimerContext.tsx,      *)
(* Timer.tsx, TimerControls) and of its completion pipeline                *)
(* (tasksDB.completeOnePomodoro in utils/database.ts).                     *)
(*                                                                         *)
(* Time is the value Date.now() returns; it only moves forward.            *)
(***************************************************************************)
EXTENDS Integers, Sequences, FiniteSets, Bags, TLC

VARIABLES
    now,             \* Date.now()
    ticks,           \* how many times the clock has been advanced
    tasks,           \* object store "tasks": set of TaskRecord, unique by id
    completedTasks,  \* object store "completedTasks": set of records, unique by id
    usedIds,         \* task ids crypto.randomUUID() has already handed out
    calls,           \* completeOnePomodoro calls in flight, by slot
    state,           \* TimerState as of the last render of TimerProvider
    queue,           \* actions dispatched to timerReducer and not yet reduced
    raf,             \* an animation frame for updateTimer is requested
    userSettings,    \* useUserSettings().settings once loaded
    uiTasks,         \* App's tasks list (ids, in display order); selectedTask is its head
    notification,    \* the in-app notification last set by Timer
    hist,            \* history: what the properties below observe
    faults,          \* the storage failures so far (request errors other than a key collision)
    jobs,            \* service worker: object store of wait jobs, by id
    timers,          \* service worker: the setTimeout callbacks armed and not yet run (a bag)
    runs,            \* service worker: processTimerChunk calls suspended at an await (a bag)
    messages,        \* per job id, the JOB_COMPLETED messages posted to the clients
    notifications,   \* per job id, how many "Job Complete" notifications were shown
    swFaults,        \* how many steps of completeJob have failed so far
    failedJobs,      \* the job ids a step of whose completion has failed
    keepAlive,       \* service worker: keepAliveInterval, its interval and its tick
    settingsStore,   \* object store "settings": per key, the stored value if any
    setCalls,        \* the setSetting calls issued, in the order they were issued
    baseStore,       \* history: the settings store before the first of these calls
    settingsRead,    \* what the last getTimerSettings or getSetting call returned
    dbVersion,       \* the version of the stored database; 0: there is none
    objectStores,    \* the names of the object stores of the stored database
    lastOpen,        \* history: the last initDB() call and the migrations it ran
    requests,        \* per caller, its initDB() call: the open request and the operation on it
    connections      \* the other tabs that hold a connection to the stored database

clockVars == <<now, ticks>>
dbVars == <<tasks, completedTasks, usedIds, calls, faults>>
timerVars == <<state, queue, raf, userSettings, uiTasks, notification, hist>>
swVars == <<jobs, timers, runs, messages, notifications, swFaults, failedJobs, keepAlive>>
settingsVars == <<settingsStore, setCalls, baseStore, settingsRead>>
schemaVars == <<dbVersion, objectStores, lastOpen, requests, connections>>
otherVars == <<swVars, settingsVars, schemaVars>>
vars == <<clockVars, dbVars, timerVars, otherVars>>

----------------------------------------------------------------------------
(* Bounds of the model *)

TaskIds == {"t1", "t2"}
MaxPomodoros == 2
MaxTicks == 2
MaxCompleted == 3
MaxSessions == 4
MaxFaults == 1

----------------------------------------------------------------------------
(* constants/timerConstants.ts *)

WORK == "work"
BREAK == "break"
LONG_BREAK == "longBreak"

MsPerMinute == 60 * 1000

DEFAULT_TIMER_SETTINGS ==
    [workDuration |-> 90 * 60 * 1000,
     breakDuration |-> 30 * 60 * 1000,
     longBreakDuration |-> 60 * 60 * 1000,
     sessionsUntilLongBreak |-> 4]

----------------------------------------------------------------------------
(* The object stores *)

NoTask == [id |-> "none", pomodoros |-> 0, order |-> 0]

HasId(store, id) == \E r \in store : r.id = id

\* IDBObjectStore.get(id): the record with that key, or undefined (NoTask)
StoreGet(store, id) ==
    IF HasId(store, id) THEN CHOOSE r \in store : r.id = id ELSE NoTask

\* IDBObjectStore.put(record): insert or replace by key
StorePut(store, rec) == {r \in store : r.id # rec.id} \cup {rec}

\* IDBObjectStore.delete(id)
StoreDelete(store, id) == {r \in store : r.id # id}

MaxOf(S, default) == IF S = {} THEN default ELSE CHOOSE m \in S : \A x \in S : x <= m

\* tasks.reduce((max, t) => Math.max(max, t.order || 0), -1)
MaxOrder(store) == MaxOf({r.order : r \in store}, -1)

----------------------------------------------------------------------------
(* tasksDB.completeOnePomodoro, one IndexedDB readwrite transaction over   *)
(* tasks and completedTasks.  The writes of an active transaction are kept *)
(* in the call's working copies (wTasks, wCompleted) and reach the stores  *)
(* when the transaction commits; an abort drops them.  While the call is   *)
(* settled and its caller has not run, preTasks and preCompleted hold the  *)
(* stores as the transaction found them.                                   *)

\* what a handler of Timer closes over: the timer type and session count of
\* the render that created it
NoClosure == [timerType |-> "none", sessionsCompleted |-> 0]

FreeCall ==
    [pc |-> "free", taskId |-> "none", baseId |-> <<>>, duration |-> 0,
     owner |-> "none", closure |-> NoClosure,
     found |-> FALSE, record |-> <<>>, remaining |-> 0,
     wTasks |-> {}, wCompleted |-> {}, preTasks |-> {}, preCompleted |-> {},
     result |-> "none"]

\* the calls in flight: one at a time; a second call would wait for the first
\* one's transaction in any case
CallSlots == {1}

TxPcs == {"get", "add", "write", "commit"}

TxActive == \E i \in CallSlots : calls[i].pc \in TxPcs

\* a settled call whose caller has not run yet: the caller's continuation is
\* a microtask, it runs before any other event is handled
Settled == \E i \in CallSlots : calls[i].pc = "done"

\* the store is free for another transaction and no continuation is due
Idle == ~TxActive /\ ~Settled

\* `completed-${activeTaskId}-${Date.now()}`: the id the caller gives the record
CallerRecordId(taskId, t) == <<taskId, t>>

\* `${completedTask.id}_${Date.now()}`
CompletedTaskId(baseId, t) == Append(baseId, t)

\* const remainingPomodoros = (originalTask.pomodoros || 0) - 1
RemainingPomodoros(originalTask) == originalTask.pomodoros - 1

\* a variant that records all the pomodoros the task had left
FoundRecordCountsAll(c, originalTask, t) ==
    [id |-> CompletedTaskId(c.baseId, t), endTime |-> t, duration |-> c.duration,
     pomodorosCompleted |-> originalTask.pomodoros, order |-> originalTask.order]

\* the completedRecord built when the original task is found
FoundRecord(c, originalTask, t) ==
    [id |-> CompletedTaskId(c.baseId, t), endTime |-> t, duration |-> c.duration,
     pomodorosCompleted |-> 1, order |-> originalTask.order]

\* the completedRecord built when the original task is missing
MissingRecord(c, t) ==
    [id |-> CompletedTaskId(c.baseId, t), endTime |-> t, duration |-> c.duration,
     pomodorosCompleted |-> 1, order |-> 0]

\* a variant that keeps a task whose last pomodoro was completed
WriteOriginalKeepsZero(store, originalTask, remaining) ==
    IF remaining >= 0
    THEN StorePut(store, [originalTask EXCEPT !.pomodoros = remaining])
    ELSE StoreDelete(store, originalTask.id)

\* "Update or delete original task"
WriteOriginal(store, originalTask, remaining) ==
    IF remaining >= 1
    THEN StorePut(store, [originalTask EXCEPT !.pomodoros = remaining])
    ELSE StoreDelete(store, originalTask.id)

\* resolve()/reject() settle the promise once; later calls are no-ops
Settle(c, how) == IF c.result = "pending" THEN how ELSE c.result

\* a variant whose handler rejects and keeps the transaction alive, as a
\* handler calling event.preventDefault() would
OnRequestErrorHandled(c) ==
    [c EXCEPT !.result = Settle(c, "rejected"), !.pc = "commit"]

\* a request's onerror handler rejects; the error event is not
\* preventDefault()ed, so the transaction aborts and its writes are dropped
OnRequestError(c) ==
    [c EXCEPT !.result = Settle(c, "rejected"), !.pc = "done"]

\* the caller starts a call: it awaits initDB() first
StartCall(i, taskId, duration, owner, closure) ==
    calls' = [calls EXCEPT ![i] =
        [FreeCall EXCEPT !.pc = "open", !.taskId = taskId,
                         !.baseId = CallerRecordId(taskId, now),
                         !.duration = duration, !.owner = owner,
                         !.closure = closure, !.result = "pending"]]

\* db.transaction([TASKS, COMPLETED_TASKS], "readwrite") and tasksStore.get(taskId);
\* transactions with overlapping scope run one after another
TxBegin(i) ==
    /\ calls[i].pc = "open"
    /\ Idle
    /\ Cardinality(completedTasks) < MaxCompleted
    /\ calls' = [calls EXCEPT ![i] =
          [@ EXCEPT !.pc = "get", !.wTasks = tasks, !.wCompleted = completedTasks,
                    !.preTasks = tasks, !.preCompleted = completedTasks]]
    /\ UNCHANGED <<tasks, completedTasks, usedIds, faults>>

\* getRequest.onsuccess: builds the completed record and queues the writes
GetSuccess(i) ==
    /\ calls[i].pc = "get"
    /\ LET c == calls[i]
           originalTask == StoreGet(c.wTasks, c.taskId)
       IN calls' = [calls EXCEPT ![i] =
            IF originalTask = NoTask
            THEN [c EXCEPT !.pc = "add", !.found = FALSE,
                           !.record = MissingRecord(c, now)]
            ELSE [c EXCEPT !.pc = "add", !.found = TRUE,
                           !.record = FoundRecord(c, originalTask, now),
                           !.remaining = RemainingPomodoros(originalTask)]]
    /\ UNCHANGED <<tasks, completedTasks, usedIds, faults>>

\* getRequest.onerror
GetError(i) ==
    /\ calls[i].pc = "get"
    /\ faults < MaxFaults
    /\ faults' = faults + 1
    /\ calls' = [calls EXCEPT ![i] = OnRequestError(@)]
    /\ UNCHANGED <<tasks, completedTasks, usedIds>>

\* completedStore.add(completedRecord) succeeds: the key is new.  When the
\* original task was missing, addCompletedRequest.onsuccess resolves.
AddSuccess(i) ==
    /\ calls[i].pc = "add"
    /\ ~HasId(calls[i].wCompleted, calls[i].record.id)
    /\ LET c == calls[i]
       IN calls' = [calls EXCEPT ![i] =
            [c EXCEPT !.wCompleted = c.wCompleted \cup {c.record},
                      !.pc = IF c.found THEN "write" ELSE "commit",
                      !.result = IF c.found THEN c.result ELSE Settle(c, "resolved")]]
    /\ UNCHANGED <<tasks, completedTasks, usedIds, faults>>

\* completedStore.add fails: ConstraintError when the key exists, or a
\* storage failure; addCompletedRequest.onerror
AddError(i) ==
    /\ calls[i].pc = "add"
    /\ IF HasId(calls[i].wCompleted, calls[i].record.id)
       THEN UNCHANGED faults
       ELSE faults < MaxFaults /\ faults' = faults + 1
    /\ calls' = [calls EXCEPT ![i] = OnRequestError(@)]
    /\ UNCHANGED <<tasks, completedTasks, usedIds>>

\* tasksStore.put / tasksStore.delete succeeds
WriteSuccess(i) ==
    /\ calls[i].pc = "write"
    /\ LET c == calls[i]
       IN calls' = [calls EXCEPT ![i] =
            [c EXCEPT !.wTasks = WriteOriginal(c.wTasks,
                                     StoreGet(c.wTasks, c.taskId), c.remaining),
                      !.pc = "commit"]]
    /\ UNCHANGED <<tasks, completedTasks, usedIds, faults>>

\* updateRequest.onerror / deleteRequest.onerror
WriteError(i) ==
    /\ calls[i].pc = "write"
    /\ faults < MaxFaults
    /\ faults' = faults + 1
    /\ calls' = [calls EXCEPT ![i] = OnRequestError(@)]
    /\ UNCHANGED <<tasks, completedTasks, usedIds>>

\* the transaction commits; transaction.oncomplete resolves
TxCommit(i) ==
    /\ calls[i].pc = "commit"
    /\ tasks' = calls[i].wTasks
    /\ completedTasks' = calls[i].wCompleted
    /\ calls' = [calls EXCEPT ![i] =
          [@ EXCEPT !.pc = "done", !.result = Settle(calls[i], "resolved")]]
    /\ UNCHANGED <<usedIds, faults>>

\* the caller's continuation has taken the result: the slot is free again
Release(i) == calls' = [calls EXCEPT ![i] = FreeCall]

TxStep(i) ==
    \/ TxBegin(i)
    \/ GetSuccess(i)
    \/ GetError(i)
    \/ AddSuccess(i)
    \/ AddError(i)
    \/ WriteSuccess(i)
    \/ WriteError(i)
    \/ TxCommit(i)

----------------------------------------------------------------------------
(* The other operations on the tasks store *)

\* tasksDB.add: a fresh id, order = highest order + 1
AddTask(id, pomodoros) ==
    /\ Idle
    /\ id \notin usedIds
    /\ tasks' = tasks \cup {[id |-> id, pomodoros |-> pomodoros,
                              order |-> MaxOrder(tasks) + 1]}
    /\ usedIds' = usedIds \cup {id}
    /\ UNCHANGED <<completedTasks, calls, faults>>

\* tasksDB.delete
DeleteTask(id) ==
    /\ Idle
    /\ HasId(tasks, id)
    /\ tasks' = StoreDelete(tasks, id)
    /\ UNCHANGED <<completedTasks, usedIds, calls, faults>>

\* App.handleMarkAsDone: completes one pomodoro of a task of the list on
\* screen, which may already be gone from the store
MarkAsDone(i, taskId) ==
    /\ calls[i].pc = "free"
    /\ ~Settled
    /\ taskId \in usedIds
    /\ StartCall(i, taskId, DEFAULT_TIMER_SETTINGS.workDuration, "app", NoClosure)
    /\ UNCHANGED <<tasks, completedTasks, usedIds, faults>>

\* handleMarkAsDone after the await: refreshes the lists
MarkAsDoneReturn(i) ==
    /\ calls[i].pc = "done"
    /\ calls[i].owner = "app"
    /\ Release(i)
    /\ UNCHANGED <<tasks, completedTasks, usedIds, faults>>

\* one millisecond passes
Tick ==
    /\ ~Settled
    /\ ticks < MaxTicks
    /\ now' = now + 1
    /\ ticks' = ticks + 1

----------------------------------------------------------------------------
(* contexts/TimerContext.tsx: the reducer *)

NullId == "null"
NullTime == -1

\* !t for a time: null, undefined or 0
Falsy(t) == t = NullTime \/ t = 0

initialState ==
    [timeLeft |-> DEFAULT_TIMER_SETTINGS.workDuration,
     isRunning |-> FALSE,
     hasStarted |-> FALSE,
     timerType |-> WORK,
     activeTaskId |-> NullId,
     startTime |-> NullTime,
     expectedEndTime |-> NullTime,
     sessionsCompleted |-> 0,
     hasCompleted |-> FALSE]

\* { ...state, ...payload }
Merge(s, p) == [f \in DOMAIN s |-> IF f \in DOMAIN p THEN p[f] ELSE s[f]]

\* a variant that keeps the deadline the state has
ReduceStartTimerKeepsDeadline(s, p, t) ==
    [s EXCEPT !.activeTaskId = p.activeTaskId,
              !.isRunning = TRUE,
              !.hasStarted = TRUE,
              !.startTime = p.startTime]

\* case "START_TIMER": the deadline is Date.now() + state.timeLeft, read when
\* the action is reduced; payload.expectedEndTime is not used
ReduceStartTimer(s, p, t) ==
    [s EXCEPT !.activeTaskId = p.activeTaskId,
              !.isRunning = TRUE,
              !.hasStarted = TRUE,
              !.startTime = p.startTime,
              !.expectedEndTime = t + s.timeLeft]

\* case "PAUSE_TIMER": "Keep timeLeft as is"
ReducePauseTimer(s) == [s EXCEPT !.isRunning = FALSE]

\* t is Date.now() at the time the action is reduced
timerReducer(s, a, t) ==
    CASE a.type = "UPDATE_TIMER_STATE" -> Merge(s, a.payload)
      [] a.type = "START_BREAK" ->
            [s EXCEPT !.timeLeft = a.payload.duration,
                      !.isRunning = TRUE,
                      !.hasStarted = TRUE,
                      !.timerType = a.payload.timerType,
                      !.activeTaskId = NullId,
                      !.startTime = a.payload.startTime,
                      !.expectedEndTime = a.payload.expectedEndTime,
                      !.hasCompleted = FALSE]
      [] a.type = "START_TIMER" -> ReduceStartTimer(s, a.payload, t)
      [] a.type = "PAUSE_TIMER" -> ReducePauseTimer(s)
      [] a.type = "UPDATE_TIME_LEFT" -> [s EXCEPT !.timeLeft = a.payload.timeLeft]
      [] OTHER -> s

RECURSIVE ReduceAll(_, _, _)
ReduceAll(q, s, t) ==
    IF q = <<>> THEN s ELSE ReduceAll(Tail(q), timerReducer(s, Head(q), t), t)

----------------------------------------------------------------------------
(* contexts/TimerContext.tsx: TimerProvider *)

\* the settings prop of TimerProvider; App renders <TimerProvider> without it
settings == DEFAULT_TIMER_SETTINGS

\* c: the state the callback closes over
getNextTimer(c) ==
    IF c.timerType = WORK
    THEN IF (c.sessionsCompleted + 1) % settings.sessionsUntilLongBreak = 0
         THEN [type |-> LONG_BREAK, duration |-> settings.longBreakDuration]
         ELSE [type |-> BREAK, duration |-> settings.breakDuration]
    ELSE [type |-> WORK, duration |-> settings.workDuration]

\* the fields resetTimer and switchTimer both clear
ClearedFields ==
    [isRunning |-> FALSE, hasStarted |-> FALSE, activeTaskId |-> NullId,
     startTime |-> NullTime, expectedEndTime |-> NullTime, hasCompleted |-> FALSE]

\* a variant that also starts the session count again
ResetTimerPayloadClearsSessions(c) ==
    ClearedFields @@
    [timeLeft |-> userSettings.workDuration, sessionsCompleted |-> 0]

\* the payload resetTimer dispatches
ResetTimerPayload(c) ==
    ClearedFields @@
    [timeLeft |-> CASE c.timerType = WORK -> userSettings.workDuration
                    [] c.timerType = BREAK -> userSettings.breakDuration
                    [] OTHER -> userSettings.longBreakDuration]

\* the session count switchTimer writes
SwitchSessions(c, nextType) ==
    IF nextType = WORK THEN c.sessionsCompleted + 1 ELSE c.sessionsCompleted

\* the payload switchTimer dispatches
SwitchTimerPayload(c) ==
    LET nextTimer == getNextTimer(c)
    IN ClearedFields @@
       [timeLeft |-> CASE nextTimer.type = WORK -> userSettings.workDuration * MsPerMinute
                       [] nextTimer.type = BREAK -> userSettings.breakDuration
                       [] OTHER -> userSettings.longBreakDuration,
        timerType |-> nextTimer.type,
        sessionsCompleted |-> SwitchSessions(c, nextTimer.type)]

Action(type, payload) == [type |-> type, payload |-> payload]

Closure(s) == [timerType |-> s.timerType, sessionsCompleted |-> s.sessionsCompleted]

switchTimer(c) == Action("UPDATE_TIMER_STATE", SwitchTimerPayload(c))

resetTimer(c) == Action("UPDATE_TIMER_STATE", ResetTimerPayload(c))

\* a variant that leaves the task out of the payload
startTimerUnbound(s, taskId, t) ==
    Action("START_TIMER",
           [startTime |-> t, expectedEndTime |-> t + s.timeLeft, activeTaskId |-> NullId])

\* startTimer(task) called at time t
startTimer(s, taskId, t) ==
    Action("START_TIMER",
           [startTime |-> t, expectedEndTime |-> t + s.timeLeft, activeTaskId |-> taskId])

\* a variant that gives a break the duration of a work phase
startBreakWorkDuration(breakType, t) ==
    Action("START_BREAK",
           [startTime |-> t, expectedEndTime |-> t + userSettings.workDuration,
            duration |-> userSettings.workDuration, timerType |-> breakType])

\* startBreak(breakType) called at time t
startBreak(breakType, t) ==
    LET d == IF breakType = BREAK THEN userSettings.breakDuration
                                  ELSE userSettings.longBreakDuration
    IN Action("START_BREAK",
              [startTime |-> t, expectedEndTime |-> t + d, duration |-> d,
               timerType |-> breakType])

pauseTimer == Action("PAUSE_TIMER", <<>>)

\* the effect's first run after the settings have loaded
InitialLoad(us) ==
    Action("UPDATE_TIMER_STATE", [timeLeft |-> us.workDuration * MsPerMinute])

\* updateTimer's finalState
FinalState(s) == [s EXCEPT !.hasCompleted = TRUE, !.isRunning = FALSE, !.timeLeft = 0]

\* Math.ceil(Math.max(0, state.expectedEndTime - now))
NewTimeLeft(s, t) == IF s.expectedEndTime - t > 0 THEN s.expectedEndTime - t ELSE 0

----------------------------------------------------------------------------
(* App.tsx: the task list on screen *)

selectedTask == IF uiTasks = <<>> THEN NullId ELSE Head(uiTasks)

RECURSIVE SortedIds(_)
\* tasksDB.getAll(): the tasks sorted by order
SortedIds(store) ==
    IF store = {} THEN <<>>
    ELSE LET m == CHOOSE r \in store : \A x \in store : r.order <= x.order
         IN <<m.id>> \o SortedIds(store \ {m})

RECURSIVE Without(_, _)
\* prev.filter((task) => task.id !== taskId)
Without(seq, id) ==
    IF seq = <<>> THEN <<>>
    ELSE IF Head(seq) = id THEN Without(Tail(seq), id)
         ELSE <<Head(seq)>> \o Without(Tail(seq), id)

\* App.handleDeleteTask
AppDeleteTask(id) ==
    /\ Idle
    /\ queue = <<>>
    /\ \E k \in 1 .. Len(uiTasks) : uiTasks[k] = id
    /\ tasks' = StoreDelete(tasks, id)
    /\ uiTasks' = Without(uiTasks, id)
    /\ UNCHANGED <<completedTasks, usedIds, calls, faults>>
    /\ UNCHANGED <<state, queue, raf, userSettings, notification, hist>>

\* the ids uuidv4() gives the tasks App creates, and the ids
\* crypto.randomUUID() gives their records in tasksDB.add
UiIds == {"n1"}
DbIds == {"d1"}

\* App.handleAddTask: tasksDB.add stores the task under an id of its own, and
\* the task App created is put at the head of the list
AppAddTask(uiId, dbId) ==
    /\ Idle
    /\ queue = <<>>
    /\ uiId \notin usedIds /\ dbId \notin usedIds
    /\ tasks' = tasks \cup {[id |-> dbId, pomodoros |-> 1,
                              order |-> MaxOrder(tasks) + 1]}
    /\ usedIds' = usedIds \cup {uiId, dbId}
    /\ uiTasks' = <<uiId>> \o uiTasks
    /\ UNCHANGED <<completedTasks, calls, faults>>
    /\ UNCHANGED <<state, queue, raf, userSettings, notification, hist>>

----------------------------------------------------------------------------
(* components/Timer/Timer.tsx and TimerControls *)

canStartWorkTimer == selectedTask # NullId

isPaused == ~state.isRunning /\ state.hasStarted

\* RESUME and DONE are disabled for a paused work timer without a task
PausedControlsDisabled == isPaused /\ ~canStartWorkTimer /\ state.timerType = WORK

\* No continuation is due and no transaction is between two of its requests.
\* The requests of a started transaction touch nothing the page's other events
\* read or write, so they are taken back to back; a call waits for its
\* transaction to begin, and for the reload after it, among the other events.
Quiet == ~Settled /\ ~TxActive

\* the page is rendered: a click can be handled
UiReady == queue = <<>> /\ Quiet

Dispatch(a) == queue' = Append(queue, a)

FreeSlots == {i \in CallSlots : calls[i].pc = "free"}

\* actualDurationMs in handleDone
ActualDuration(ts) ==
    IF ts.hasCompleted THEN userSettings.workDuration
    ELSE IF ts.hasStarted THEN userSettings.workDuration - ts.timeLeft
    ELSE NullTime

\* a variant that completes a pomodoro of the task selected in the list
HandleDoneSelected(ts, c) ==
    IF ts.timerType # WORK
    THEN /\ Dispatch(switchTimer(c))
         /\ notification' = "completed"
         /\ UNCHANGED calls
    ELSE IF ts.activeTaskId = NullId
    THEN /\ Dispatch(switchTimer(c))
         /\ notification' = "failed"
         /\ UNCHANGED calls
    ELSE /\ FreeSlots # {}
         /\ StartCall(CHOOSE i \in FreeSlots : \A j \in FreeSlots : i <= j,
                      selectedTask, ActualDuration(ts), "timer", c)
         /\ UNCHANGED <<queue, notification>>

\* handleDone(timerState) up to its first await; c is what its switchTimer closes over
HandleDone(ts, c) ==
    IF ts.timerType # WORK
    THEN /\ Dispatch(switchTimer(c))
         /\ notification' = "completed"
         /\ UNCHANGED calls
    ELSE IF ts.activeTaskId = NullId
    THEN /\ Dispatch(switchTimer(c))
         /\ notification' = "failed"
         /\ UNCHANGED calls
    ELSE /\ FreeSlots # {}
         /\ StartCall(CHOOSE i \in FreeSlots : \A j \in FreeSlots : i <= j,
                      ts.activeTaskId, ActualDuration(ts), "timer", c)
         /\ UNCHANGED <<queue, notification>>

\* START on a work timer: handleStartWorkTimer
ClickStart ==
    /\ UiReady
    /\ ~state.hasStarted /\ state.timerType = WORK /\ canStartWorkTimer
    /\ Dispatch(startTimer(state, selectedTask, now))
    /\ UNCHANGED hist
    /\ UNCHANGED <<state, raf, userSettings, uiTasks, notification>>
    /\ UNCHANGED <<clockVars, otherVars, dbVars>>

\* START on a break: handleStartBreakTimer
ClickBreak ==
    /\ UiReady
    /\ ~state.hasStarted /\ state.timerType # WORK
    /\ Dispatch(startBreak(state.timerType, now))
    /\ UNCHANGED hist
    /\ UNCHANGED <<state, raf, userSettings, uiTasks, notification>>
    /\ UNCHANGED <<clockVars, otherVars, dbVars>>

\* PAUSE: handlePause
ClickPause ==
    /\ UiReady
    /\ state.hasStarted /\ state.isRunning
    /\ Dispatch(pauseTimer)
    /\ hist' = [hist EXCEPT !.pausedAt = now]
    /\ UNCHANGED <<state, raf, userSettings, uiTasks, notification>>
    /\ UNCHANGED <<clockVars, otherVars, dbVars>>

\* RESUME: handleResume calls startTimer(selectedTask); with no task selected
\* task.id throws and nothing is dispatched
ClickResume ==
    /\ UiReady
    /\ isPaused /\ ~PausedControlsDisabled
    /\ canStartWorkTimer
    /\ Dispatch(startTimer(state, selectedTask, now))
    /\ UNCHANGED hist
    /\ UNCHANGED <<state, raf, userSettings, uiTasks, notification>>
    /\ UNCHANGED <<clockVars, otherVars, dbVars>>

\* STOP: handleResetCurrentTimer
ClickStop ==
    /\ UiReady
    /\ state.hasStarted /\ state.isRunning
    /\ Dispatch(resetTimer(Closure(state)))
    /\ UNCHANGED hist
    /\ UNCHANGED <<state, raf, userSettings, uiTasks, notification>>
    /\ UNCHANGED <<clockVars, otherVars, dbVars>>

\* SKIP on a break that has not started: handleSkip
ClickSkip ==
    /\ UiReady
    /\ ~state.hasStarted /\ state.timerType # WORK
    /\ Dispatch(switchTimer(Closure(state)))
    /\ UNCHANGED hist
    /\ UNCHANGED <<state, raf, userSettings, uiTasks, notification>>
    /\ UNCHANGED <<clockVars, otherVars, dbVars>>

\* DONE on a paused timer: handleDone(state)
ClickDone ==
    /\ UiReady
    /\ isPaused /\ ~PausedControlsDisabled
    /\ HandleDone(state, Closure(state))
    /\ UNCHANGED hist
    /\ UNCHANGED <<state, raf, userSettings, uiTasks>>
    /\ UNCHANGED <<clockVars, otherVars, tasks, completedTasks, usedIds, faults>>

\* handleDone after completeOnePomodoro resolved: await onTaskComplete()
DoneResolved(i) ==
    /\ calls[i].pc = "done" /\ calls[i].owner = "timer"
    /\ calls[i].result = "resolved"
    /\ calls' = [calls EXCEPT ![i] =
          [FreeCall EXCEPT !.pc = "refresh", !.owner = "timer",
                           !.closure = calls[i].closure]]
    /\ UNCHANGED <<clockVars, otherVars, tasks, completedTasks, usedIds, faults, timerVars>>

\* App.handleTaskComplete reloads the lists, then handleDone switches the timer
DoneRefreshed(i) ==
    /\ calls[i].pc = "refresh"
    /\ Idle
    /\ queue = <<>>
    /\ uiTasks' = SortedIds(tasks)
    /\ Dispatch(switchTimer(calls[i].closure))
    /\ notification' = "completed"
    /\ Release(i)
    /\ UNCHANGED <<state, raf, userSettings, hist>>
    /\ UNCHANGED <<clockVars, otherVars, tasks, completedTasks, usedIds, faults>>

\* handleDone's catch: the failure message is set, the timer is switched and
\* the completion message is set over it
DoneRejected(i) ==
    /\ calls[i].pc = "done" /\ calls[i].owner = "timer"
    /\ calls[i].result = "rejected"
    /\ Dispatch(switchTimer(calls[i].closure))
    /\ notification' = "completed"
    /\ Release(i)
    /\ UNCHANGED <<state, raf, userSettings, uiTasks, hist>>
    /\ UNCHANGED <<clockVars, otherVars, tasks, completedTasks, usedIds, faults>>

----------------------------------------------------------------------------
(* contexts/TimerContext.tsx: rendering and the deadline check *)

\* a variant whose cleanup does not cancel the requested frame
FrameKept(next) == raf \/ next.isRunning

\* the effect's cleanup cancels the requested frame and the effect requests
\* one if the timer is running
FrameRequested(next) == next.isRunning

\* React reduces the queued actions and renders; the effect cancels the
\* requested frame and requests one if the timer is running
Render ==
    /\ queue # <<>>
    /\ Quiet
    /\ LET next == ReduceAll(queue, state, now)
       IN /\ next.sessionsCompleted <= MaxSessions
          /\ state' = next
          /\ raf' = FrameRequested(next)
          /\ hist' = [hist EXCEPT
                !.fired = IF next.hasStarted THEN @ ELSE 0,
                !.pausedAt = IF next.isRunning \/ ~next.hasStarted
                             THEN NullTime ELSE @,
                !.works = IF state.timerType = WORK /\ next.timerType # WORK
                          THEN @ + 1 ELSE @]
    /\ queue' = <<>>
    /\ UNCHANGED <<userSettings, uiTasks, notification>>
    /\ UNCHANGED <<clockVars, otherVars, dbVars>>

\* the requested animation frame runs updateTimer
UpdateTimer ==
    /\ raf
    /\ queue = <<>>
    /\ Quiet
    /\ IF ~state.isRunning \/ Falsy(state.startTime) \/ Falsy(state.expectedEndTime)
       THEN /\ raf' = FALSE
            /\ UNCHANGED <<queue, calls, notification, hist>>
       ELSE IF NewTimeLeft(state, now) <= 0
       THEN \* the timer completed: the callback gets finalState, nothing is dispatched
            /\ hist.fired < 2
            /\ raf' = FALSE
            /\ hist' = [hist EXCEPT !.fired = @ + 1]
            /\ IF state.timerType = WORK
               THEN HandleDone(FinalState(state), Closure(state))
               ELSE /\ notification' = "completed"
                    /\ UNCHANGED <<queue, calls>>
       ELSE /\ raf' = TRUE
            /\ IF NewTimeLeft(state, now) # state.timeLeft
               THEN Dispatch(Action("UPDATE_TIME_LEFT",
                                    [timeLeft |-> NewTimeLeft(state, now)]))
               ELSE UNCHANGED queue
            /\ UNCHANGED <<calls, notification, hist>>
    /\ UNCHANGED <<state, userSettings, uiTasks>>
    /\ UNCHANGED <<clockVars, otherVars, tasks, completedTasks, usedIds, faults>>

\* the time runs up to the deadline of the running timer
Elapse ==
    /\ Quiet
    /\ ticks < MaxTicks
    /\ state.isRunning
    /\ state.expectedEndTime > now + 1
    /\ now' = state.expectedEndTime
    /\ ticks' = ticks + 1

----------------------------------------------------------------------------
(* The service worker's wait jobs: createWaitJob, processTimerChunk and    *)
(* completeJob. A processTimerChunk call runs from one await to the next   *)
(* in one step; a setTimeout callback runs at or after its due time.       *)

JobOrder == <<"j1", "j2">>
JobIds == {JobOrder[i] : i \in 1 .. Len(JobOrder)}
Durations == {1000, 100000, 200000}
MaxStepFailures == 2

MICRO_TASK_INTERVAL == 50000
TIMER_MARGIN == 180000
PreciseBuffer == 2000

NoJob == [id |-> "none", endTime |-> 0, createdAt |-> 0, status |-> "none"]

\* idxdb.storeJob: puts the job under its id
storeJob(store, job) == [store EXCEPT ![job.id] = job]

\* idxdb.getJobById: the stored job, whatever its status
getJobById(store, id) == store[id]

\* idxdb.getAllActiveJobs: the jobs with status "active", in key order
getAllActiveJobs(store) ==
    SelectSeq([i \in 1 .. Len(JobOrder) |-> store[JobOrder[i]]],
              LAMBDA job : job.status = "active")

\* setTimeout(() => completeJob(job), adjustedDelay)
PreciseTimer(job, due) == [kind |-> "complete", job |-> job, due |-> due]

\* setTimeout(async () => { await processTimerChunk(); }, MICRO_TASK_INTERVAL)
ChunkTimer(due) == [kind |-> "chunk", job |-> NoJob, due |-> due]

\* a processTimerChunk call: the jobs it read and has not processed yet;
\* resumed is FALSE until it has passed the "no active jobs" check
ChunkRun(todo, resumed) == [todo |-> todo, resumed |-> resumed]

\* Math.max(0, x)
Max0(x) == IF x > 0 THEN x ELSE 0

\* the loop of processTimerChunk from the job at the head of todo up to its
\* next await: arm holds the precise timers it sets, cur is the job it
\* completes at once (NoJob when the loop ends first), rest the jobs after it
RECURSIVE LoopUntilAwait(_, _)
LoopUntilAwait(todo, t) ==
    IF todo = <<>>
    THEN [arm |-> EmptyBag, cur |-> NoJob, rest |-> <<>>]
    ELSE LET job == Head(todo)
             remaining == job.endTime - t
             adjustedDelay == Max0(remaining - PreciseBuffer)
         IN IF remaining <= TIMER_MARGIN
            THEN IF adjustedDelay > 0
                 THEN LET r == LoopUntilAwait(Tail(todo), t)
                      IN [r EXCEPT !.arm =
                             @ (+) SetToBag({PreciseTimer(job, t + adjustedDelay)})]
                 ELSE [arm |-> EmptyBag, cur |-> job, rest |-> Tail(todo)]
            ELSE LoopUntilAwait(Tail(todo), t)

\* the JOB_COMPLETED messages of a job: how many were posted, and when the
\* first was
NoMessages == [sent |-> 0, firstAt |-> NullTime]
Posted(m, t) == [sent |-> m.sent + 1, firstAt |-> IF m.sent = 0 THEN t ELSE m.firstAt]

\* completeJob(job); outcome "ok", "storeFails" (storeJob rejects) or
\* "showFails" (showNotification rejects after the message was posted)
completeJob(job, outcome) ==
    /\ outcome # "ok" => swFaults < MaxStepFailures
    /\ swFaults' = IF outcome = "ok" THEN swFaults ELSE swFaults + 1
    /\ failedJobs' = IF outcome = "ok" THEN failedJobs ELSE failedJobs \cup {job.id}
    /\ jobs' = IF outcome = "storeFails"
               THEN jobs
               ELSE storeJob(jobs, [job EXCEPT !.status = "completed"])
    /\ messages' = IF outcome = "storeFails"
                   THEN messages
                   ELSE [messages EXCEPT ![job.id] = Posted(@, now)]
    /\ notifications' = IF outcome = "ok"
                        THEN [notifications EXCEPT ![job.id] = @ + 1]
                        ELSE notifications

Outcomes == {"ok", "storeFails", "showFails"}

\* interval: keepAliveInterval is set; armed: the setInterval timers that
\* are armed; tick: "none", or what the tick that is suspended at
\* await getAllActiveJobs() has read: "found" (active jobs) or "empty"
NoKeepAlive == [interval |-> FALSE, armed |-> 0, tick |-> "none"]

\* startKeepAliveLoop(): "if (keepAliveInterval) return; // Already running"
startKeepAliveLoop(k) ==
    IF k.interval THEN k ELSE [k EXCEPT !.interval = TRUE, !.armed = @ + 1]

\* the interval's callback runs up to its await: getAllActiveJobs() reads
\* the store.  The interval is longer than every wait and a tick that finds
\* an active job changes nothing, so a tick is taken at any time.
KeepAliveTick ==
    /\ keepAlive.armed > 0
    /\ keepAlive.tick = "none"
    /\ keepAlive' = [keepAlive EXCEPT !.tick =
          IF getAllActiveJobs(jobs) # <<>> THEN "found" ELSE "empty"]
    /\ UNCHANGED <<jobs, timers, runs, messages, notifications, swFaults, failedJobs>>

\* the callback after the await: with active jobs it pings (a fetch, whose
\* failure is caught), with none it clears the interval in keepAliveInterval
KeepAliveResume ==
    /\ keepAlive.tick # "none"
    /\ keepAlive' =
          IF keepAlive.tick = "found" \/ ~keepAlive.interval
          THEN [keepAlive EXCEPT !.tick = "none"]
          ELSE [interval |-> FALSE, armed |-> keepAlive.armed - 1, tick |-> "none"]
    /\ UNCHANGED <<jobs, timers, runs, messages, notifications, swFaults, failedJobs>>

\* createWaitJob({id, duration}) for an id not used before
createWaitJob(id, duration) ==
    /\ jobs[id] = NoJob
    /\ LET job == [id |-> id, endTime |-> now + duration, createdAt |-> now,
                   status |-> "active"]
           stored == storeJob(jobs, job)
       IN /\ jobs' = stored
          /\ runs' = runs (+) SetToBag({ChunkRun(<<getJobById(stored, id)>>, FALSE)})
    /\ keepAlive' = startKeepAliveLoop(keepAlive)
    /\ UNCHANGED <<timers, messages, notifications, swFaults, failedJobs>>

\* processTimerChunk from one await to the next
processTimerChunk(r) ==
    /\ BagIn(r, runs)
    /\ UNCHANGED keepAlive
    /\ LET seg == LoopUntilAwait(r.todo, now)
           left == runs (-) SetToBag({r})
       IN IF r.todo = <<>> /\ ~r.resumed
          THEN \* "No active jobs to process"
               /\ runs' = left
               /\ UNCHANGED <<jobs, timers, messages, notifications, swFaults,
                              failedJobs>>
          ELSE IF seg.cur = NoJob
          THEN \* the loop is over: "Schedule next chunk after the interval"
               /\ runs' = left
               /\ timers' = timers (+) seg.arm
                                   (+) SetToBag({ChunkTimer(now + MICRO_TASK_INTERVAL)})
               /\ UNCHANGED <<jobs, messages, notifications, swFaults, failedJobs>>
          ELSE \* await completeJob(job); a rejection ends the call in its catch
               \E outcome \in Outcomes :
                  /\ completeJob(seg.cur, outcome)
                  /\ timers' = timers (+) seg.arm
                  /\ runs' = IF outcome = "ok"
                             THEN left (+) SetToBag({ChunkRun(seg.rest, TRUE)})
                             ELSE left

\* a setTimeout callback runs
TimerFire(tm) ==
    /\ BagIn(tm, timers)
    /\ tm.due <= now
    /\ timers' = timers (-) SetToBag({tm})
    /\ UNCHANGED keepAlive
    /\ IF tm.kind = "chunk"
       THEN /\ runs' = runs (+) SetToBag({ChunkRun(getAllActiveJobs(jobs), FALSE)})
            /\ UNCHANGED <<jobs, messages, notifications, swFaults, failedJobs>>
       ELSE /\ \E outcome \in Outcomes : completeJob(tm.job, outcome)
            /\ UNCHANGED runs

\* the earliest due time of the armed timers
NextDue == CHOOSE d \in {tm.due : tm \in BagToSet(timers)} :
              \A tm \in BagToSet(timers) : d <= tm.due

\* time passes up to the next due time, once every due timer has run and
\* no call is suspended; timers due at the same time run in any order
AdvanceClock ==
    /\ runs = EmptyBag
    /\ timers # EmptyBag
    /\ NextDue > now
    /\ now' = NextDue

SwIdle ==
    /\ jobs = [id \in JobIds |-> NoJob]
    /\ timers = EmptyBag
    /\ runs = EmptyBag
    /\ messages = [id \in JobIds |-> NoMessages]
    /\ notifications = [id \in JobIds |-> 0]
    /\ swFaults = 0
    /\ failedJobs = {}
    /\ keepAlive = NoKeepAlive



----------------------------------------------------------------------------
(* settingsDB in utils/database.ts. A stored or returned value is a set:   *)
(* empty for "no record" and null, {v} for the value v. Every setSetting   *)
(* call opens the database and puts its record in a transaction of its     *)
(* own; open requests are served, and transactions on the store run, in    *)
(* the order they were made.                                               *)

TimerKeys == <<"workDuration", "breakDuration", "longBreakDuration",
               "sessionsUntilLongBreak">>
TimerKeySet == {TimerKeys[i] : i \in 1 .. Len(TimerKeys)}
DurationKeys == TimerKeySet \ {"sessionsUntilLongBreak"}
SettingKeys == TimerKeySet \cup {"addTasksToBottom"}
NumberValues == {25, 999, 1000}
MaxWrites == 2

\* the values a caller passes for a key
ValuesOf(key) == IF key \in TimerKeySet THEN NumberValues ELSE BOOLEAN

EmptyStore == [key \in SettingKeys |-> {}]

\* the value of a non-null result
Only(s) == CHOOSE v \in s : TRUE

\* databaseUtils.convertSettingValue for a stored number or boolean:
\* Number(value) of a number and Boolean(value) of a boolean
convertSettingValue(value, key) ==
    IF key \in TimerKeySet
    THEN value + 0
    ELSE (value /\ TRUE)

\* getSetting(key): null when there is no record
getSetting(store, key) ==
    IF key \notin DOMAIN store \/ store[key] = {} THEN {}
    ELSE {convertSettingValue(Only(store[key]), key)}

\* a ?? b
OrDefault(s, d) == IF s = {} THEN d ELSE Only(s)

\* convertToMs in getTimerSettings
convertToMs(value) == IF value < 1000 THEN value * 60 * 1000 ELSE value

\* a variant that scales every number it returns
getTimerSettingsScalesAll(store) ==
    [key \in TimerKeySet |->
        convertToMs(OrDefault(getSetting(store, key), DEFAULT_TIMER_SETTINGS[key]))]

\* getTimerSettings()
getTimerSettings(store) ==
    [key \in TimerKeySet |->
        LET value == OrDefault(getSetting(store, key), DEFAULT_TIMER_SETTINGS[key])
        IN IF key \in DurationKeys THEN convertToMs(value) ELSE value]

\* a variant that also takes 1000 for minutes
ensureMillisecondsInclusive(value) ==
    IF value <= 1000 THEN value * 60 * 1000 ELSE value

\* ensureMilliseconds in setTimerSettings
ensureMilliseconds(value) == IF value < 1000 THEN value * 60 * 1000 ELSE value

\* a variant that adds the record only when the key has none
addSetting(store, key, value) ==
    IF store[key] = {} THEN [store EXCEPT ![key] = {value}] ELSE store

\* a variant that keeps one record in the store
putSettingAlone(store, key, value) == [EmptyStore EXCEPT ![key] = {value}]

\* store.put({ id: key, value })
putSetting(store, key, value) == [store EXCEPT ![key] = {value}]

\* a setSetting call: given is the value its caller passed, supplied the
\* fields of the argument of the setTimerSettings call that made it (its own
\* key otherwise), concurrent says that an earlier call had not resolved
\* when it was made
SetCall(key, value, given, op, supplied, concurrent) ==
    [key |-> key, value |-> value, given |-> given, op |-> op,
     supplied |-> supplied, concurrent |-> concurrent, pc |-> "open"]

AllResolved == \A i \in 1 .. Len(setCalls) : setCalls[i].pc = "done"

\* the setTimerSettings arguments with the given fields
Partials(keys) == [keys -> NumberValues]

\* the sets of fields an argument may have while at most MaxWrites calls are made
SuppliedKeys ==
    {keys \in SUBSET TimerKeySet :
        keys # {} /\ Len(setCalls) + Cardinality(keys) <= MaxWrites}

\* a variant that writes sessionsUntilLongBreak also when it is not supplied
UpdatesWritesSessions(partial, concurrent) ==
    LET key == "sessionsUntilLongBreak"
        withSessions == [k \in DOMAIN partial \cup {key} |->
                            IF k \in DOMAIN partial THEN partial[k]
                            ELSE DEFAULT_TIMER_SETTINGS[k]]
        supplied == SelectSeq(TimerKeys, LAMBDA k : k \in DOMAIN withSessions)
    IN [i \in 1 .. Len(supplied) |->
           SetCall(supplied[i],
                   IF supplied[i] \in DurationKeys
                   THEN ensureMilliseconds(withSessions[supplied[i]])
                   ELSE withSessions[supplied[i]],
                   withSessions[supplied[i]], "setTimerSettings", DOMAIN partial,
                   concurrent)]

\* the setSetting calls of setTimerSettings(settings), in the order made
Updates(partial, concurrent) ==
    LET supplied == SelectSeq(TimerKeys, LAMBDA key : key \in DOMAIN partial)
    IN [i \in 1 .. Len(supplied) |->
           LET key == supplied[i]
           IN SetCall(key,
                      IF key \in DurationKeys
                      THEN ensureMilliseconds(partial[key]) ELSE partial[key],
                      partial[key], "setTimerSettings", DOMAIN partial, concurrent)]

NoRead == [kind |-> "none"]

\* the keys a caller passes that are no setting keys: empty, blank, padded,
\* unknown
InvalidKeyInputs == {"", "  ", " workDuration", "unknown"}

\* the keys a caller passes; the stored keys of this model are SettingKeys
KeyInputs == SettingKeys \cup InvalidKeyInputs

\* String.prototype.trim() on these keys
trim(key) ==
    CASE key = "  " -> ""
      [] key = " workDuration" -> "workDuration"
      [] OTHER -> key

\* databaseUtils.validateKey: TRUE when it does not throw
validateKey(key) == ~(key = "" \/ trim(key) = "")

\* a variant that takes every key that is not empty
isValidSettingKeyNonEmpty(key) == key # ""

\* databaseUtils.isValidSettingKey
isValidSettingKey(key) ==
    key \in {"workDuration", "breakDuration", "longBreakDuration",
             "sessionsUntilLongBreak", "addTasksToBottom", "autoStartBreaks",
             "autoStartPomodoros"}

\* what getSetting and setSetting throw for a key before `await initDB()`
KeyError(key) ==
    IF ~validateKey(key) THEN "DatabaseError"
    ELSE IF ~isValidSettingKey(key) THEN "Invalid setting key"
    ELSE "none"

\* the call threw: nothing was opened
Rejected(op, key) ==
    [kind |-> "rejected", op |-> op, key |-> key, error |-> KeyError(key)]

\* setSetting(key, value) up to `await initDB()`; an invalid key throws
\* before it
SetSetting(key, value) ==
    /\ settingsRead = NoRead
    /\ IF KeyError(key) # "none"
       THEN /\ settingsRead' = Rejected("setSetting", key)
            /\ UNCHANGED <<settingsStore, setCalls, baseStore>>
       ELSE /\ Len(setCalls) < MaxWrites
            /\ setCalls' = Append(setCalls,
                  SetCall(key, value, value, "setSetting", {key}, ~AllResolved))
            /\ UNCHANGED <<settingsStore, baseStore, settingsRead>>

\* setTimerSettings(settings) up to `await Promise.all(updates)`
SetTimerSettings(partial) ==
    /\ settingsRead = NoRead
    /\ LET updates == Updates(partial, ~AllResolved)
       IN /\ Len(setCalls) + Len(updates) <= MaxWrites
          /\ setCalls' = setCalls \o updates
    /\ UNCHANGED <<settingsStore, baseStore, settingsRead>>

\* initDB() resolves and the call makes its transaction and its put request
OpenResolves(i) ==
    /\ setCalls[i].pc = "open"
    /\ \A j \in 1 .. i - 1 : setCalls[j].pc # "open"
    /\ setCalls' = [setCalls EXCEPT ![i].pc = "tx"]
    /\ UNCHANGED <<settingsStore, baseStore, settingsRead>>

\* request.onsuccess: the record is in the store and the call resolves
PutSucceeds(i) ==
    /\ setCalls[i].pc = "tx"
    /\ \A j \in 1 .. i - 1 : setCalls[j].pc = "done"
    /\ settingsStore' = putSetting(settingsStore, setCalls[i].key, setCalls[i].value)
    /\ setCalls' = [setCalls EXCEPT ![i].pc = "done"]
    /\ UNCHANGED <<baseStore, settingsRead>>

\* await getTimerSettings() once the calls made have resolved
GetTimerSettings ==
    /\ AllResolved
    /\ settingsRead = NoRead
    /\ settingsRead' = [kind |-> "timer", result |-> getTimerSettings(settingsStore)]
    /\ UNCHANGED <<settingsStore, setCalls, baseStore>>

\* await getSetting(key) once the calls made have resolved; an invalid key
\* throws before the database is opened
GetSetting(key) ==
    /\ settingsRead = NoRead
    /\ IF KeyError(key) # "none"
       THEN settingsRead' = Rejected("getSetting", key)
       ELSE /\ AllResolved
            /\ settingsRead' = [kind |-> key, result |-> getSetting(settingsStore, key)]
    /\ UNCHANGED <<settingsStore, setCalls, baseStore>>

\* the partial stores the calls start from: empty, one written by
\* setSetting with minutes, and one with every key
InitialStores ==
    {EmptyStore,
     [EmptyStore EXCEPT !["workDuration"] = {25}, !["addTasksToBottom"] = {TRUE}],
     [key \in SettingKeys |-> IF key \in TimerKeySet THEN {1000} ELSE {FALSE}]}

SettingsIdle ==
    /\ settingsStore = EmptyStore
    /\ setCalls = <<>>
    /\ baseStore = EmptyStore
    /\ settingsRead = NoRead

----------------------------------------------------------------------------
(* initDB and DB_MIGRATIONS in utils/database.ts. indexedDB.open(name, 3)  *)
(* runs onupgradeneeded in a versionchange transaction when the stored     *)
(* version is lower; a migration that throws aborts that transaction and   *)
(* the open request fails.                                                 *)

TASKS == "tasks"
COMPLETED_TASKS == "completedTasks"
SETTINGS == "settings"

MaxOpens == 2

\* the versions that have a migration: Object.keys(DB_MIGRATIONS).map(Number)
MigrationVersions == {1, 2, 3}

\* Math.max(...Object.keys(DB_MIGRATIONS).map(Number))
DB_VERSION == MaxOf(MigrationVersions, 0)

\* the object store DB_MIGRATIONS[version] creates
CreatedBy(version) ==
    CASE version = 1 -> TASKS
      [] version = 2 -> COMPLETED_TASKS
      [] OTHER -> SETTINGS

\* DB_MIGRATIONS[version](db): createObjectStore throws when the store
\* exists; version 3 looks before it creates
Migrate(version, stores) ==
    IF CreatedBy(version) \in stores
    THEN IF version = 3
         THEN [threw |-> FALSE, stores |-> stores]
         ELSE [threw |-> TRUE, stores |-> stores]
    ELSE [threw |-> FALSE, stores |-> stores \cup {CreatedBy(version)}]

RECURSIVE Ascending(_)
\* .sort((a, b) => a.version - b.version)
Ascending(versions) ==
    IF versions = {} THEN <<>>
    ELSE LET least == CHOOSE v \in versions : \A w \in versions : v <= w
         IN <<least>> \o Ascending(versions \ {least})

\* a variant that also takes the migration of the stored version
PendingMigrationsFromOld(oldVersion) ==
    Ascending({version \in MigrationVersions : version >= oldVersion})

\* .filter(({ version }) => version > oldVersion).sort(...)
PendingMigrations(oldVersion) ==
    Ascending({version \in MigrationVersions : version > oldVersion})

RECURSIVE ForEachMigration(_, _, _)
\* .forEach(({ migration }) => migration(db)): the migrations called and the
\* stores they leave, up to the first that throws
ForEachMigration(todo, ran, stores) ==
    IF todo = <<>> THEN [threw |-> FALSE, ran |-> ran, stores |-> stores]
    ELSE LET r == Migrate(Head(todo), stores)
         IN IF r.threw
            THEN [threw |-> TRUE, ran |-> Append(ran, Head(todo)), stores |-> stores]
            ELSE ForEachMigration(Tail(todo), Append(ran, Head(todo)), r.stores)

NoOpen == [n |-> 0, oldVersion |-> 0, ran |-> <<>>, result |-> "none"]

\* initDB(): the open request and, for a lower stored version, its
\* onupgradeneeded handler
OpenDatabase ==
    /\ lastOpen.n < MaxOpens
    /\ IF dbVersion >= DB_VERSION
       THEN /\ lastOpen' = [n |-> lastOpen.n + 1, oldVersion |-> dbVersion,
                            ran |-> <<>>, result |-> "resolved"]
            /\ UNCHANGED <<dbVersion, objectStores>>
       ELSE LET u == ForEachMigration(PendingMigrations(dbVersion), <<>>, objectStores)
            IN IF u.threw
               THEN /\ lastOpen' = [n |-> lastOpen.n + 1, oldVersion |-> dbVersion,
                                    ran |-> u.ran, result |-> "rejected"]
                    /\ UNCHANGED <<dbVersion, objectStores>>
               ELSE /\ lastOpen' = [n |-> lastOpen.n + 1, oldVersion |-> dbVersion,
                                    ran |-> u.ran, result |-> "resolved"]
                    /\ dbVersion' = DB_VERSION
                    /\ objectStores' = u.stores
    /\ UNCHANGED <<tasks, completedTasks, settingsStore, requests, connections>>

\* a record is put in the settings store of the open database
PutRecord(key, value) ==
    /\ lastOpen.result = "resolved"
    /\ SETTINGS \in objectStores
    /\ settingsStore' = putSetting(settingsStore, key, value)
    /\ UNCHANGED <<tasks, completedTasks, schemaVars>>

\* indexedDB.deleteDatabase(DB_NAME)
DeleteDatabase ==
    /\ dbVersion > 0
    /\ dbVersion' = 0
    /\ objectStores' = {}
    /\ tasks' = {}
    /\ completedTasks' = {}
    /\ settingsStore' = EmptyStore
    /\ lastOpen' = [lastOpen EXCEPT !.result = "none"]
    /\ UNCHANGED <<requests, connections>>

\* the stores of a database that the migrations up to a version have made
StoresAt(version) == {CreatedBy(v) : v \in 1 .. version}

\* the callers of initDB() that are followed: two operations of tasksDB
Callers == {"getAll", "add"}

\* the other tabs of the site
OtherTabs == {"tab"}

\* open: the state of the open request; denied: the environment refuses the
\* open (request.onerror); operation: the promise of the caller's operation
NoRequest == [open |-> "none", denied |-> FALSE, operation |-> "none"]

NoRequests == [c \in Callers |-> NoRequest]

\* an operation calls initDB(): indexedDB.open(DB_NAME, DB_VERSION)
CallInitDB(c, denied) ==
    /\ requests[c].open = "none"
    /\ requests' = [requests EXCEPT ![c] =
          [open |-> "pending", denied |-> denied, operation |-> "pending"]]
    /\ UNCHANGED <<dbVersion, objectStores, lastOpen, connections>>

\* request.onerror: the environment denies the open, or the stored version
\* is higher than DB_VERSION (VersionError); initDB rejects
OpenError(c) ==
    /\ requests[c].open = "pending"
    /\ requests[c].denied \/ dbVersion > DB_VERSION
    /\ requests' = [requests EXCEPT ![c].open = "rejected"]
    /\ UNCHANGED <<dbVersion, objectStores, lastOpen, connections>>

\* the stored version is lower and another tab holds a connection that it
\* does not close: the request gets a blocked event, which initDB does not
\* settle its promise on, and waits
OpenBlocked(c) ==
    /\ requests[c].open = "pending"
    /\ ~requests[c].denied
    /\ dbVersion < DB_VERSION
    /\ connections # {}
    /\ requests' = [requests EXCEPT ![c].open = "blocked"]
    /\ UNCHANGED <<dbVersion, objectStores, lastOpen, connections>>

\* the other tab is closed, or closes its connection
OtherTabCloses(tab) ==
    /\ tab \in connections
    /\ connections' = connections \ {tab}
    /\ UNCHANGED <<dbVersion, objectStores, lastOpen, requests>>

\* no other connection is open: request.onupgradeneeded runs the migrations,
\* then request.onsuccess resolves; a migration that throws aborts the
\* upgrade and request.onerror rejects
OpenUpgrade(c) ==
    /\ requests[c].open \in {"pending", "blocked"}
    /\ ~requests[c].denied
    /\ dbVersion < DB_VERSION
    /\ connections = {}
    /\ LET u == ForEachMigration(PendingMigrations(dbVersion), <<>>, objectStores)
       IN IF u.threw
          THEN /\ requests' = [requests EXCEPT ![c].open = "rejected"]
               /\ UNCHANGED <<dbVersion, objectStores>>
          ELSE /\ requests' = [requests EXCEPT ![c].open = "resolved"]
               /\ dbVersion' = DB_VERSION
               /\ objectStores' = u.stores
    /\ UNCHANGED <<lastOpen, connections>>

\* the stored version is DB_VERSION (it was, or an open request before this
\* one has upgraded it): request.onsuccess resolves
OpenSuccess(c) ==
    /\ requests[c].open \in {"pending", "blocked"}
    /\ ~requests[c].denied
    /\ dbVersion = DB_VERSION
    /\ requests' = [requests EXCEPT ![c].open = "resolved"]
    /\ UNCHANGED <<dbVersion, objectStores, lastOpen, connections>>

\* const db = await initDB() in the operation: a rejected open rejects the
\* operation, on a resolved one the operation runs its transaction
OperationSettles(c) ==
    /\ requests[c].open \in {"resolved", "rejected"}
    /\ requests[c].operation = "pending"
    /\ requests' = [requests EXCEPT ![c].operation = requests[c].open]
    /\ UNCHANGED <<dbVersion, objectStores, lastOpen, connections>>

\* the caller has taken the result of the operation
OperationReturns(c) ==
    /\ requests[c].operation \in {"resolved", "rejected"}
    /\ requests' = [requests EXCEPT ![c] = NoRequest]
    /\ UNCHANGED <<dbVersion, objectStores, lastOpen, connections>>

\* the database of the other components: current, with its three stores
SchemaIdle ==
    /\ dbVersion = DB_VERSION
    /\ objectStores = StoresAt(DB_VERSION)
    /\ lastOpen = NoOpen
    /\ requests = NoRequests
    /\ connections = {}

OthersIdle == SwIdle /\ SettingsIdle /\ SchemaIdle

----------------------------------------------------------------------------
(* The timer with its task list and store *)

\* fired: the calls of the completion callback since the phase was started;
\* works: the work phases that were left for a break;
\* pausedAt: the time of the PAUSE click while the timer is paused
NoHist == [fired |-> 0, works |-> 0, pausedAt |-> NullTime]

\* what the user has stored: durations (read as minutes by the initial load)
\* and the number of sessions until a long break
UserSettingsChoices ==
    {[workDuration |-> 2, breakDuration |-> 1, longBreakDuration |-> 2,
      sessionsUntilLongBreak |-> n] : n \in {2, 4}}

\* the timer of a page that never loaded it (the store on its own)
TimerIdle ==
    /\ state = initialState
    /\ queue = <<>>
    /\ raf = FALSE
    /\ userSettings = DEFAULT_TIMER_SETTINGS
    /\ uiTasks = <<>>
    /\ notification = "none"
    /\ hist = NoHist

Init ==
    /\ now = 1
    /\ ticks = 0
    /\ \E p \in 1 .. MaxPomodoros :
          tasks = {[id |-> "t1", pomodoros |-> p, order |-> 0]}
    /\ completedTasks = {}
    /\ usedIds = {"t1"}
    /\ calls = [i \in CallSlots |-> FreeCall]
    /\ faults = 0
    /\ state = initialState
    /\ \E us \in UserSettingsChoices :
          /\ userSettings = us
          /\ queue = <<InitialLoad(us)>>
    /\ raf = FALSE
    /\ uiTasks = <<"t1">>
    /\ notification = "none"
    /\ hist = NoHist
    /\ OthersIdle

Next ==
    \/ ClickStart
    \/ ClickBreak
    \/ ClickPause
    \/ ClickResume
    \/ ClickStop
    \/ ClickSkip
    \/ ClickDone
    \/ Render
    \/ UpdateTimer
    \/ \E i \in CallSlots : TxStep(i) /\ queue = <<>> /\ UNCHANGED <<clockVars, otherVars, timerVars>>
    \/ \E i \in CallSlots : DoneResolved(i)
    \/ \E i \in CallSlots : DoneRefreshed(i)
    \/ \E i \in CallSlots : DoneRejected(i)
    \/ \E t \in TaskIds : AppDeleteTask(t) /\ UNCHANGED <<clockVars, otherVars>>
    \/ Tick /\ Quiet /\ UNCHANGED <<dbVars, timerVars, otherVars>>
    \/ Elapse /\ UNCHANGED <<dbVars, timerVars, otherVars>>

Spec == Init /\ [][Next]_vars

----------------------------------------------------------------------------
(* The timer with a store that does not fail and a task list that is not   *)
(* edited: the timer's own behaviour, at larger bounds.                    *)

InitTimer ==
    /\ Init
    /\ \A r \in tasks : r.pomodoros = MaxPomodoros
    /\ userSettings.sessionsUntilLongBreak = settings.sessionsUntilLongBreak

\* a store event of a transaction without a failing request
TxStepOk(i) ==
    \/ TxBegin(i)
    \/ GetSuccess(i)
    \/ AddSuccess(i)
    \/ WriteSuccess(i)
    \/ TxCommit(i)

NextTimer ==
    \/ ClickStart
    \/ ClickBreak
    \/ ClickPause
    \/ ClickResume
    \/ ClickStop
    \/ ClickSkip
    \/ ClickDone
    \/ Render
    \/ UpdateTimer
    \/ \E i \in CallSlots : TxStepOk(i) /\ queue = <<>> /\ UNCHANGED <<clockVars, otherVars, timerVars>>
    \/ \E i \in CallSlots : DoneResolved(i)
    \/ \E i \in CallSlots : DoneRefreshed(i)
    \/ Tick /\ Quiet /\ UNCHANGED <<dbVars, timerVars, otherVars>>
    \/ Elapse /\ UNCHANGED <<dbVars, timerVars, otherVars>>

SpecTimer == InitTimer /\ [][NextTimer]_vars

----------------------------------------------------------------------------
(* The timer with a task list that is edited while the timer is used: a    *)
(* task is added and tasks are deleted, so the selected task appears,      *)
(* changes and disappears.  The store does not fail.                       *)

InitTasks ==
    /\ now = 1
    /\ ticks = 0
    /\ tasks = {[id |-> "t1", pomodoros |-> MaxPomodoros, order |-> 0]}
    /\ usedIds = {"t1"}
    /\ uiTasks = SortedIds(tasks)
    /\ completedTasks = {}
    /\ calls = [i \in CallSlots |-> FreeCall]
    /\ faults = 0
    /\ state = initialState
    /\ \E us \in UserSettingsChoices :
          /\ us.sessionsUntilLongBreak = settings.sessionsUntilLongBreak
          /\ userSettings = us
          /\ queue = <<InitialLoad(us)>>
    /\ raf = FALSE
    /\ notification = "none"
    /\ hist = NoHist
    /\ OthersIdle

\* the clock moves only to the deadline of the running timer
NextTasks ==
    \/ ClickStart
    \/ ClickBreak
    \/ ClickPause
    \/ ClickResume
    \/ ClickStop
    \/ ClickSkip
    \/ ClickDone
    \/ Render
    \/ UpdateTimer
    \/ \E i \in CallSlots : TxStepOk(i) /\ queue = <<>> /\ UNCHANGED <<clockVars, otherVars, timerVars>>
    \/ \E i \in CallSlots : DoneResolved(i)
    \/ \E i \in CallSlots : DoneRefreshed(i)
    \/ \E t \in TaskIds \cup UiIds : AppDeleteTask(t) /\ UNCHANGED <<clockVars, otherVars>>
    \/ \E u \in UiIds, d \in DbIds : AppAddTask(u, d) /\ UNCHANGED <<clockVars, otherVars>>
    \/ Elapse /\ UNCHANGED <<dbVars, timerVars, otherVars>>

SpecTasks == InitTasks /\ [][NextTasks]_vars

----------------------------------------------------------------------------
(* The store on its own: tasks are added and deleted, pomodoros are        *)
(* completed from the task list.                                           *)

InitDB ==
    /\ now = 1
    /\ ticks = 0
    /\ tasks = {}
    /\ completedTasks = {}
    /\ usedIds = {}
    /\ calls = [i \in CallSlots |-> FreeCall]
    /\ faults = 0
    /\ TimerIdle
    /\ OthersIdle

NextDB ==
    \/ \E i \in CallSlots : TxStep(i) /\ UNCHANGED <<clockVars, otherVars, timerVars>>
    \/ \E i \in CallSlots, t \in TaskIds :
          MarkAsDone(i, t) /\ UNCHANGED <<clockVars, otherVars, timerVars>>
    \/ \E i \in CallSlots : MarkAsDoneReturn(i) /\ UNCHANGED <<clockVars, otherVars, timerVars>>
    \/ \E t \in TaskIds, p \in 1 .. MaxPomodoros :
          AddTask(t, p) /\ UNCHANGED <<clockVars, otherVars, timerVars>>
    \/ \E t \in TaskIds : DeleteTask(t) /\ UNCHANGED <<clockVars, otherVars, timerVars>>
    \/ Tick /\ UNCHANGED <<dbVars, timerVars, otherVars>>

SpecDB == InitDB /\ [][NextDB]_vars

----------------------------------------------------------------------------
(* The settings on their own: calls are made, resolve, and are read back.  *)

InitSettings ==
    /\ now = 1
    /\ ticks = 0
    /\ tasks = {}
    /\ completedTasks = {}
    /\ usedIds = {}
    /\ calls = [i \in CallSlots |-> FreeCall]
    /\ faults = 0
    /\ TimerIdle
    /\ SwIdle
    /\ SchemaIdle
    /\ settingsStore \in InitialStores
    /\ baseStore = settingsStore
    /\ setCalls = <<>>
    /\ settingsRead = NoRead

NextSettings ==
    \/ \E key \in SettingKeys : \E value \in ValuesOf(key) :
          SetSetting(key, value) /\ UNCHANGED <<clockVars, dbVars, timerVars, swVars, schemaVars>>
    \/ \E keys \in SuppliedKeys : \E partial \in Partials(keys) :
          SetTimerSettings(partial) /\ UNCHANGED <<clockVars, dbVars, timerVars, swVars, schemaVars>>
    \/ \E i \in 1 .. Len(setCalls) :
          OpenResolves(i) /\ UNCHANGED <<clockVars, dbVars, timerVars, swVars, schemaVars>>
    \/ \E i \in 1 .. Len(setCalls) :
          PutSucceeds(i) /\ UNCHANGED <<clockVars, dbVars, timerVars, swVars, schemaVars>>
    \/ GetTimerSettings /\ UNCHANGED <<clockVars, dbVars, timerVars, swVars, schemaVars>>
    \/ \E key \in SettingKeys :
          GetSetting(key) /\ UNCHANGED <<clockVars, dbVars, timerVars, swVars, schemaVars>>

SpecSettings == InitSettings /\ [][NextSettings]_vars

----------------------------------------------------------------------------
(* getSetting and setSetting with any key a caller may pass.               *)

NextKeys ==
    \/ \E key \in KeyInputs : \E value \in ValuesOf(key) :
          SetSetting(key, value) /\ UNCHANGED <<clockVars, dbVars, timerVars, swVars, schemaVars>>
    \/ \E key \in KeyInputs :
          GetSetting(key) /\ UNCHANGED <<clockVars, dbVars, timerVars, swVars, schemaVars>>
    \/ \E i \in 1 .. Len(setCalls) :
          OpenResolves(i) /\ UNCHANGED <<clockVars, dbVars, timerVars, swVars, schemaVars>>
    \/ \E i \in 1 .. Len(setCalls) :
          PutSucceeds(i) /\ UNCHANGED <<clockVars, dbVars, timerVars, swVars, schemaVars>>

SpecKeys == InitSettings /\ [][NextKeys]_vars

----------------------------------------------------------------------------
(* The database on its own: it is opened at any stored version, records    *)
(* are put, and it is deleted.                                             *)

InitMigrate ==
    /\ now = 1
    /\ ticks = 0
    /\ dbVersion \in 0 .. DB_VERSION
    /\ objectStores = StoresAt(dbVersion)
    /\ lastOpen = NoOpen
    /\ requests = NoRequests
    /\ connections = {}
    /\ tasks \in IF TASKS \in objectStores
                THEN {{}, {[id |-> "t1", pomodoros |-> 1, order |-> 0]}}
                ELSE {{}}
    /\ completedTasks = {}
    /\ settingsStore \in IF SETTINGS \in objectStores THEN InitialStores ELSE {EmptyStore}
    /\ usedIds = {}
    /\ calls = [i \in CallSlots |-> FreeCall]
    /\ faults = 0
    /\ TimerIdle
    /\ SwIdle
    /\ setCalls = <<>>
    /\ baseStore = EmptyStore
    /\ settingsRead = NoRead

NextMigrate ==
    \/ OpenDatabase
          /\ UNCHANGED <<clockVars, usedIds, calls, faults, timerVars, swVars,
                         setCalls, baseStore, settingsRead>>
    \/ \E key \in SettingKeys : \E value \in ValuesOf(key) :
          PutRecord(key, value)
             /\ UNCHANGED <<clockVars, usedIds, calls, faults, timerVars, swVars,
                            setCalls, baseStore, settingsRead>>
    \/ DeleteDatabase
          /\ UNCHANGED <<clockVars, usedIds, calls, faults, timerVars, swVars,
                         setCalls, baseStore, settingsRead>>

SpecMigrate == InitMigrate /\ [][NextMigrate]_vars

----------------------------------------------------------------------------
(* Opening the database: the stored version may be lower than, equal to or *)
(* higher than DB_VERSION, another tab may hold a connection, and the      *)
(* environment may deny an open.                                           *)

InitOpen ==
    /\ now = 1
    /\ ticks = 0
    /\ dbVersion \in 0 .. DB_VERSION + 1
    /\ objectStores = StoresAt(IF dbVersion > DB_VERSION THEN DB_VERSION ELSE dbVersion)
    /\ lastOpen = NoOpen
    /\ requests = NoRequests
    /\ connections \in IF dbVersion = 0 THEN {{}} ELSE SUBSET OtherTabs
    /\ tasks = {}
    /\ completedTasks = {}
    /\ usedIds = {}
    /\ calls = [i \in CallSlots |-> FreeCall]
    /\ faults = 0
    /\ TimerIdle
    /\ SwIdle
    /\ SettingsIdle

OpenStep(c) ==
    \/ OpenError(c)
    \/ OpenBlocked(c)
    \/ OpenUpgrade(c)
    \/ OpenSuccess(c)
    \/ OperationSettles(c)

NextOpen ==
    \/ \E c \in Callers, denied \in BOOLEAN :
          CallInitDB(c, denied)
             /\ UNCHANGED <<clockVars, dbVars, timerVars, swVars, settingsVars>>
    \/ \E c \in Callers :
          OpenError(c) /\ UNCHANGED <<clockVars, dbVars, timerVars, swVars, settingsVars>>
    \/ \E c \in Callers :
          OpenBlocked(c) /\ UNCHANGED <<clockVars, dbVars, timerVars, swVars, settingsVars>>
    \/ \E c \in Callers :
          OpenUpgrade(c) /\ UNCHANGED <<clockVars, dbVars, timerVars, swVars, settingsVars>>
    \/ \E c \in Callers :
          OpenSuccess(c) /\ UNCHANGED <<clockVars, dbVars, timerVars, swVars, settingsVars>>
    \/ \E c \in Callers :
          OperationSettles(c)
             /\ UNCHANGED <<clockVars, dbVars, timerVars, swVars, settingsVars>>
    \/ \E c \in Callers :
          OperationReturns(c)
             /\ UNCHANGED <<clockVars, dbVars, timerVars, swVars, settingsVars>>
    \/ \E tab \in OtherTabs :
          OtherTabCloses(tab)
             /\ UNCHANGED <<clockVars, dbVars, timerVars, swVars, settingsVars>>

SpecOpen == InitOpen /\ [][NextOpen]_vars

\* every step of the open request and of the operation that is due is taken;
\* nothing makes the other tab close
SpecOpenLive ==
    /\ SpecOpen
    /\ \A c \in Callers :
          WF_vars(OpenStep(c) /\ UNCHANGED <<clockVars, dbVars, timerVars, swVars, settingsVars>>)

----------------------------------------------------------------------------
(* The service worker on its own: wait jobs are created and time passes.   *)

InitSW ==
    /\ now = 0
    /\ ticks = 0
    /\ tasks = {}
    /\ completedTasks = {}
    /\ usedIds = {}
    /\ calls = [i \in CallSlots |-> FreeCall]
    /\ faults = 0
    /\ TimerIdle
    /\ SwIdle
    /\ SettingsIdle
    /\ SchemaIdle

\* the page asks for a wait job (CREATE_WAIT_JOB)
RequestJob ==
    \E id \in JobIds, d \in Durations :
        createWaitJob(id, d) /\ UNCHANGED <<clockVars, dbVars, timerVars, settingsVars, schemaVars>>

\* a suspended processTimerChunk call goes on
ResumeCall ==
    \E r \in BagToSet(runs) :
        processTimerChunk(r) /\ UNCHANGED <<clockVars, dbVars, timerVars, settingsVars, schemaVars>>

\* a due timer runs its callback
RunTimer ==
    \E tm \in BagToSet(timers) :
        TimerFire(tm) /\ UNCHANGED <<clockVars, dbVars, timerVars, settingsVars, schemaVars>>

\* time passes
PassTime ==
    AdvanceClock /\ UNCHANGED <<ticks, dbVars, timerVars, swVars, settingsVars, schemaVars>>

NextSW ==
    \/ RequestJob
    \/ ResumeCall
    \/ RunTimer
    \/ PassTime

SpecSW == InitSW /\ [][NextSW]_vars

\* the host runs every due timer and every suspended call, and time passes
SpecSWLive ==
    /\ SpecSW
    /\ WF_vars(ResumeCall)
    /\ WF_vars(RunTimer)
    /\ WF_vars(PassTime)

----------------------------------------------------------------------------
(* Properties of completeOnePomodoro, checked under SpecDB *)

\* the calls that have settled and whose caller has not run yet
SettledCalls == {i \in CallSlots : calls[i].pc = "done"}

\* the task the call names, as the transaction found it
OriginalOf(c) == StoreGet(c.preTasks, c.taskId)

\* the caller's record id of a completed record's id
BaseOf(id) == SubSeq(id, 1, 2)

\* C1: a call of completeOnePomodoro on an existing task that resolves has
\* removed the task if it had one pomodoro and lowered its pomodoros by one
\* otherwise, has added exactly one completed record, and has changed no
\* other task and no existing completed record.
C1_CompletesOnePomodoro ==
    \A i \in SettledCalls :
        LET c == calls[i]
            orig == OriginalOf(c)
        IN (orig # NoTask /\ c.result = "resolved") =>
              /\ tasks = IF orig.pomodoros = 1
                         THEN c.preTasks \ {orig}
                         ELSE (c.preTasks \ {orig})
                              \cup {[orig EXCEPT !.pomodoros = orig.pomodoros - 1]}
              /\ c.preCompleted \subseteq completedTasks
              /\ Cardinality(completedTasks \ c.preCompleted) = 1
              /\ \A r \in completedTasks \ c.preCompleted :
                    ~HasId(c.preCompleted, r.id)

\* C1 happens: a call resolved on the last pomodoro of a task while another
\* task and an earlier completed record exist
C1_Witness ==
    \E i \in SettledCalls :
        /\ calls[i].result = "resolved"
        /\ OriginalOf(calls[i]) # NoTask
        /\ OriginalOf(calls[i]).pomodoros = 1
        /\ Cardinality(calls[i].preTasks) = 2
        /\ calls[i].preCompleted # {}

\* C2: completeOnePomodoro is all-or-nothing: a rejected call leaves both
\* stores as the transaction found them, and in no state is the task of a
\* call changed without the record inserted or the record inserted without
\* the task changed.
C2_AllOrNothing ==
    \A i \in CallSlots :
        LET c == calls[i]
        IN /\ (c.pc = "done" /\ c.result = "rejected") =>
                (tasks = c.preTasks /\ completedTasks = c.preCompleted)
           /\ (c.pc \in TxPcs \cup {"done"} /\ OriginalOf(c) # NoTask) =>
                (tasks # c.preTasks <=> completedTasks # c.preCompleted)

\* C2 happens: a call was rejected after its record had been inserted in the
\* transaction
C2_Witness ==
    \E i \in SettledCalls :
        /\ calls[i].result = "rejected"
        /\ calls[i].wCompleted # calls[i].preCompleted

\* C10: a completion with a base id that was completed before succeeds and
\* leaves two completed records with distinct ids for that base id, also when
\* both completions read the same clock millisecond (no storage failure).
C10_SecondCompletionSucceeds ==
    \A i \in SettledCalls :
        LET c == calls[i]
        IN (faults = 0 /\ \E r \in c.preCompleted : BaseOf(r.id) = c.baseId) =>
              /\ c.result = "resolved"
              /\ Cardinality({r \in completedTasks : BaseOf(r.id) = c.baseId}) >= 2

\* C11: a call of completeOnePomodoro whose task is not in the active tasks
\* does not fail (no storage failure): it resolves, adds exactly one completed
\* record, with order 0 and pomodorosCompleted 1, and leaves the tasks as
\* they were.
C11_MissingTaskCompletes ==
    \A i \in SettledCalls :
        LET c == calls[i]
        IN (faults = 0 /\ OriginalOf(c) = NoTask) =>
              /\ c.result = "resolved"
              /\ tasks = c.preTasks
              /\ c.preCompleted \subseteq completedTasks
              /\ Cardinality(completedTasks \ c.preCompleted) = 1
              /\ \A r \in completedTasks \ c.preCompleted :
                    r.order = 0 /\ r.pomodorosCompleted = 1

----------------------------------------------------------------------------
(* Properties of the timer, checked under Spec *)

\* the state once the queued actions are reduced
Pending(q, st, t) == ReduceAll(q, st, t)

\* a step in which the deadline check found the deadline passed
DeadlineReached == hist'.fired = hist.fired + 1

\* a render that reduces a START_TIMER action
RendersStart ==
    /\ Len(queue) = 1
    /\ Head(queue).type = "START_TIMER"
    /\ queue' = <<>>

\* a render in which the phase changes
PhaseChanges == queue # <<>> /\ queue' = <<>> /\ state'.timerType # state.timerType

\* the next phase by the cadence rule with n sessions until a long break
CadenceNext(c, n) ==
    IF c.timerType = WORK
    THEN IF (c.sessionsCompleted + 1) % n = 0 THEN LONG_BREAK ELSE BREAK
    ELSE WORK

\* C3: in one run of a phase the completion callback is invoked at most
\* once, whatever the user does while the completion is handled.
C3_CallbackOncePerRun == hist.fired <= 1

\* C4: the deadline check that finds now >= expectedEndTime makes the timer
\* state itself completed: hasCompleted, not running, timeLeft = 0.
C4_DeadlineCompletesState ==
    [][DeadlineReached =>
          LET s == Pending(queue', state', now')
          IN s.hasCompleted /\ ~s.isRunning /\ s.timeLeft = 0]_vars

\* C5: startTimer called at time T with timeLeft = D gives a running, started
\* state with startTime = T, the task's id and expectedEndTime = T + D.
C5_StartSetsDeadline ==
    [][RendersStart =>
          LET p == Head(queue).payload
          IN /\ state'.isRunning /\ state'.hasStarted
             /\ state'.startTime = p.startTime
             /\ state'.activeTaskId = p.activeTaskId
             /\ state'.expectedEndTime = p.startTime + state.timeLeft]_vars

\* C6 (pause): a timer paused before its deadline holds
\* timeLeft = expectedEndTime - (time of the pause).
C6_PauseFreezes ==
    (/\ isPaused /\ queue = <<>>
     /\ hist.pausedAt # NullTime
     /\ hist.pausedAt < state.expectedEndTime)
        => state.timeLeft = state.expectedEndTime - hist.pausedAt

\* C6 (resume): resuming at R sets expectedEndTime to R plus what was left at
\* the pause.
C6_ResumeRestores ==
    (/\ RendersStart
     /\ isPaused
     /\ hist.pausedAt # NullTime
     /\ hist.pausedAt < state.expectedEndTime)
        => state'.expectedEndTime =
              Head(queue).payload.startTime + (state.expectedEndTime - hist.pausedAt)

\* C6: pausing at T + d freezes timeLeft at D - d and a later resume at R sets
\* expectedEndTime = R + (D - d), also when no deadline check ran before the
\* pause.
C6_PauseResume == []C6_PauseFreezes /\ [][C6_ResumeRestores]_vars

\* C7: cadence law: the k-th work phase left for a break is followed by a
\* long break exactly if k is a multiple of the user's sessionsUntilLongBreak.
C7_Cadence ==
    [][(PhaseChanges /\ state.timerType = WORK) =>
          (state'.timerType = LONG_BREAK
             <=> (hist.works + 1) % userSettings.sessionsUntilLongBreak = 0)]_vars

\* C8: in every state getNextTimer decides by the sessionsUntilLongBreak of
\* the user's settings; from a break it returns WORK.
C8_NextTimerUsesUserSettings ==
    getNextTimer(Closure(state)).type
        = CadenceNext(Closure(state), userSettings.sessionsUntilLongBreak)

\* C9: a switch adds one to sessionsCompleted when it leaves WORK and leaves
\* sessionsCompleted unchanged when it leaves a break.
C9_SessionsCountWork ==
    [][PhaseChanges =>
          state'.sessionsCompleted =
             state.sessionsCompleted + (IF state.timerType = WORK THEN 1 ELSE 0)]_vars

\* a completeOnePomodoro call that the deadline check of the running work
\* timer started
DeadlineCalls ==
    {i \in CallSlots : /\ calls[i].owner = "timer"
                       /\ calls[i].pc \in TxPcs \cup {"open", "done"}
                       /\ hist.fired >= 1}

----------------------------------------------------------------------------
(* Properties of the service worker's wait jobs (SpecSW, SpecSWLive) *)

\* C12: however many times the completion of a wait job is fired, at most
\* one JOB_COMPLETED message is posted and at most one notification is shown
\* for it, and a job that has a message has status completed.
C12_CompletionOnce ==
    \A id \in JobIds :
        /\ messages[id].sent <= 1
        /\ notifications[id] <= 1
        /\ messages[id].sent >= 1 => jobs[id].status = "completed"

\* C13: the status of a wait job becomes completed, and its JOB_COMPLETED
\* message is posted, only at a time at or after the job's endTime.
C13_NeverEarly ==
    \A id \in JobIds :
        /\ messages[id].sent >= 1 => messages[id].firstAt >= jobs[id].endTime
        /\ jobs[id].status = "completed" => now >= jobs[id].endTime

\* C14: when the due timers and the suspended calls are run fairly, every
\* wait job that createWaitJob stored ends up with status completed and a
\* JOB_COMPLETED message, unless a step of its own completion failed.
C14_EveryJobCompletes ==
    \A id \in JobIds :
        (jobs[id].status = "active") ~>
            (\/ jobs[id].status = "completed" /\ messages[id].sent >= 1
             \/ id \in failedJobs)

----------------------------------------------------------------------------
(* Properties of settingsDB (SpecSettings) *)

\* the setSetting calls made for a key, and the last of them
CallsFor(key) == {i \in 1 .. Len(setCalls) : setCalls[i].key = key}
LastCallFor(key) == setCalls[CHOOSE i \in CallsFor(key) : \A j \in CallsFor(key) : j <= i]

\* what getTimerSettings returns for a number that is stored for a key
Normalized(key, value) ==
    IF key \in DurationKeys /\ value < 1000 THEN value * 60000 ELSE value

C18_OnlySuppliedWritten ==
    \A key \in SettingKeys :
        (\A i \in 1 .. Len(setCalls) : key \notin setCalls[i].supplied) =>
            settingsStore[key] = baseStore[key]

\* C18 happens: a setTimerSettings call wrote its field while another timer
\* setting and a setting that is none were stored
C18_Witness ==
    /\ AllResolved
    /\ \E i \in 1 .. Len(setCalls) : setCalls[i].op = "setTimerSettings"
    /\ \A i \in 1 .. Len(setCalls) : "addTasksToBottom" \notin setCalls[i].supplied
    /\ baseStore["addTasksToBottom"] # {}
    /\ \E key \in TimerKeySet :
          /\ \A i \in 1 .. Len(setCalls) : key \notin setCalls[i].supplied
          /\ baseStore[key] # {}
    /\ settingsStore # baseStore

\* C19: a call that has resolved and is the only one made for its key has
\* its value stored, whatever the calls for other keys have done meanwhile.
C19_DifferentKeysKept ==
    \A i \in 1 .. Len(setCalls) :
        (setCalls[i].pc = "done" /\ CallsFor(setCalls[i].key) = {i}) =>
            settingsStore[setCalls[i].key] = {setCalls[i].value}

\* C19 happens: two setTimerSettings calls for different keys ran at the
\* same time and both have resolved
C19_Witness ==
    /\ AllResolved
    /\ Len(setCalls) = 2
    /\ setCalls[1].op = "setTimerSettings" /\ setCalls[2].op = "setTimerSettings"
    /\ setCalls[1].key # setCalls[2].key
    /\ setCalls[1].supplied # setCalls[2].supplied
    /\ setCalls[2].concurrent
    /\ baseStore[setCalls[1].key] # {}

\* C20: once all the calls made have resolved, getSetting returns for every
\* key written the value of the call made last for it.
C20_LastWriteWins ==
    AllResolved =>
        \A key \in SettingKeys :
            CallsFor(key) # {} =>
                /\ getSetting(settingsStore, key) = {LastCallFor(key).value}
                /\ settingsRead.kind = key =>
                      settingsRead.result = {LastCallFor(key).value}

\* C20 happens: two setSetting calls for one key with different values ran
\* at the same time, resolved, and getSetting was called
C20_Witness ==
    /\ Len(setCalls) = 2
    /\ setCalls[1].op = "setSetting" /\ setCalls[2].op = "setSetting"
    /\ setCalls[1].key = setCalls[2].key
    /\ setCalls[1].value # setCalls[2].value
    /\ setCalls[2].concurrent
    /\ settingsRead.kind = setCalls[1].key

\* the seven setting keys
RecognizedKeys ==
    {"workDuration", "breakDuration", "longBreakDuration", "sessionsUntilLongBreak",
     "addTasksToBottom", "autoStartBreaks", "autoStartPomodoros"}

\* a step that is a getSetting or setSetting call with the key
CallsWithKey(key) ==
    \/ GetSetting(key)
    \/ \E value \in BOOLEAN : SetSetting(key, value)

\* no open request and no record is ever made for a key that is not recognized
NoInvalidKeyOpened ==
    /\ \A i \in 1 .. Len(setCalls) : setCalls[i].key \in RecognizedKeys
    /\ settingsRead.kind \notin {"none", "timer", "rejected"} =>
          settingsRead.kind \in RecognizedKeys

\* a call with a key that is not recognized throws, opens nothing and leaves
\* the store as it is
InvalidKeyRejects ==
    \A key \in KeyInputs \ RecognizedKeys :
        CallsWithKey(key) =>
            /\ settingsRead'.kind = "rejected"
            /\ settingsRead'.key = key
            /\ setCalls' = setCalls
            /\ settingsStore' = settingsStore

\* C21: getSetting and setSetting with a key that is empty, blank or none of
\* the seven setting keys throw before the database is opened: no open
\* request is made for the call and the settings store is unchanged.
C21_InvalidKeyRejected == []NoInvalidKeyOpened /\ [][InvalidKeyRejects]_vars

\* C21 happens: setSetting threw for a blank key while a call for a valid
\* key was waiting for the database and the store held records
C21_Witness ==
    /\ settingsRead.kind = "rejected"
    /\ settingsRead.op = "setSetting"
    /\ settingsRead.key = "  "
    /\ settingsRead.error = "DatabaseError"
    /\ \E i \in 1 .. Len(setCalls) : setCalls[i].pc = "open"
    /\ settingsStore # EmptyStore

----------------------------------------------------------------------------
(* Properties of initDB (SpecMigrate) *)

\* a step that is an initDB() call
Opens == lastOpen'.n = lastOpen.n + 1

\* the versions from..to, ascending
VersionsFromTo(from, to) == [i \in 1 .. (to - from + 1) |-> from + i - 1]

\* C22: opening the database stored at version v (0 <= v <= 3) runs the
\* migrations v+1, ..., 3, each once and in ascending order; at v = 3 no
\* migration runs and the stores and their records are unchanged; after a
\* successful open the stores tasks, completedTasks and settings exist.
C22_MigrationsCumulative ==
    [][Opens =>
          /\ lastOpen'.ran = VersionsFromTo(dbVersion + 1, 3)
          /\ dbVersion = 3 =>
                /\ lastOpen'.ran = <<>>
                /\ objectStores' = objectStores
                /\ UNCHANGED <<tasks, completedTasks, settingsStore>>
          /\ lastOpen'.result = "resolved" =>
                {"tasks", "completedTasks", "settings"} \subseteq objectStores']_vars

\* C22 happens: a database stored at version 1 with a task in it was opened
\* and versions 2 and 3 were applied
C22_Witness ==
    /\ lastOpen.result = "resolved"
    /\ lastOpen.oldVersion = 1
    /\ lastOpen.ran = <<2, 3>>
    /\ dbVersion = 3
    /\ tasks # {}
    /\ objectStores = {"tasks", "completedTasks", "settings"}

----------------------------------------------------------------------------
(* Properties of the timer's handlers and action creators (Spec) *)

\* a step in which handleDone ends after completeOnePomodoro rejected
RejectedDoneEnds ==
    \E i \in CallSlots :
        /\ calls[i].pc = "done" /\ calls[i].owner = "timer"
        /\ calls[i].result = "rejected"
        /\ calls'[i].pc = "free"

\* a step in which handleDone ends after the completion and the reload
ResolvedDoneEnds ==
    \E i \in CallSlots : calls[i].pc = "refresh" /\ calls'[i].pc = "free"

\* a step in which handleDone of a work phase ends without a call: no
\* active task id
NoTaskDoneEnds ==
    /\ state.timerType = WORK
    /\ notification' = "failed"
    /\ calls' = calls

\* a step in which the handling of a work phase's completion ends
WorkDoneEnds == RejectedDoneEnds \/ ResolvedDoneEnds \/ NoTaskDoneEnds

\* the timer is about to be in a break that has not started
SwitchedToBreak ==
    LET s == Pending(queue', state', now')
    IN /\ queue' # <<>>
       /\ s.timerType \in {BREAK, LONG_BREAK}
       /\ ~s.isRunning /\ ~s.hasStarted /\ ~s.hasCompleted
       /\ s.activeTaskId = NullId

\* the handling of a work phase's completion always switches the timer
WorkDoneSwitches == [][WorkDoneEnds => SwitchedToBreak]_vars

\* C23: on every path of the handling of a work phase's completion the
\* timer is switched to the next phase, not started; when
\* completeOnePomodoro rejects, the failure message is shown and the phase
\* still switches.
C23_ForwardProgress ==
    [][/\ WorkDoneEnds => SwitchedToBreak
       /\ RejectedDoneEnds => notification' = "failed"]_vars

\* the timer is about to be in a work phase that has not started
SwitchedToWork ==
    LET s == Pending(queue', state', now')
    IN s.timerType = WORK /\ ~s.isRunning /\ ~s.hasStarted

\* C24: when a running break or long break reaches its deadline, the
\* completion handling notifies, switches the timer to WORK, not started,
\* and changes neither the tasks nor the completed tasks.
C24_BreakCompletionSwitches ==
    [][(DeadlineReached /\ state.timerType \in {BREAK, LONG_BREAK}) =>
          /\ notification' = "completed"
          /\ SwitchedToWork
          /\ UNCHANGED <<tasks, completedTasks>>]_vars

\* the duration the user's settings hold for a phase type
ConfiguredDuration(timerType) ==
    CASE timerType = WORK -> userSettings.workDuration
      [] timerType = BREAK -> userSettings.breakDuration
      [] OTHER -> userSettings.longBreakDuration

\* the state after resetTimer() is called in the rendered state
AfterReset == timerReducer(state, resetTimer(Closure(state)), now)

\* C25: resetTimer, from any state, gives a timer that is not running, not
\* started and not completed, with activeTaskId, startTime and
\* expectedEndTime cleared and timeLeft the configured duration of the
\* current phase type; timerType and sessionsCompleted are unchanged.
C25_ResetTimer ==
    /\ ~AfterReset.isRunning /\ ~AfterReset.hasStarted /\ ~AfterReset.hasCompleted
    /\ AfterReset.activeTaskId = NullId
    /\ AfterReset.startTime = NullTime
    /\ AfterReset.expectedEndTime = NullTime
    /\ AfterReset.timeLeft = ConfiguredDuration(state.timerType)
    /\ AfterReset.timerType = state.timerType
    /\ AfterReset.sessionsCompleted = state.sessionsCompleted

\* C25 happens: STOP was clicked on a running break after a session was
\* counted, and the reset is about to be rendered
C25_Witness ==
    /\ state.isRunning /\ state.hasStarted
    /\ state.timerType = LONG_BREAK
    /\ state.startTime # NullTime
    /\ state.sessionsCompleted >= 1
    /\ queue = <<resetTimer(Closure(state))>>
    /\ Pending(queue, state, now) = AfterReset

\* the state after switchTimer() is called in the rendered state
AfterSwitch == timerReducer(state, switchTimer(Closure(state)), now)

\* C26: switchTimer leaves the timer not started (not running, not
\* completed, activeTaskId and deadline cleared) in the next phase with
\* timeLeft the configured duration of that phase, whichever of the three
\* phases it is: the timeLeft resetTimer sets when called in that phase.
C26_SwitchTimer ==
    /\ ~AfterSwitch.isRunning /\ ~AfterSwitch.hasStarted /\ ~AfterSwitch.hasCompleted
    /\ AfterSwitch.activeTaskId = NullId
    /\ AfterSwitch.expectedEndTime = NullTime
    /\ AfterSwitch.timerType = getNextTimer(Closure(state)).type
    /\ AfterSwitch.timeLeft = ConfiguredDuration(AfterSwitch.timerType)
    /\ AfterSwitch.timeLeft =
          timerReducer(AfterSwitch, resetTimer(Closure(AfterSwitch)), now).timeLeft

\* a step in which startBreak is called: a START_BREAK action is dispatched
CallsStartBreak ==
    /\ Len(queue') = Len(queue) + 1
    /\ queue'[Len(queue')].type = "START_BREAK"

\* a render that reduces a START_BREAK action
RendersBreak ==
    /\ Len(queue) = 1
    /\ Head(queue).type = "START_BREAK"
    /\ queue' = <<>>

\* C27: startBreak(type) called at time T with type BREAK or LONG_BREAK
\* gives timerType = type, timeLeft = the configured duration of the type,
\* a running, started, not completed timer without a task, startTime = T
\* and expectedEndTime = T + that duration; sessionsCompleted is unchanged.
C27_StartBreak ==
    [][/\ CallsStartBreak =>
             LET p == queue'[Len(queue')].payload
             IN p.startTime = now /\ p.timerType = state.timerType
       /\ RendersBreak =>
             LET p == Head(queue).payload
             IN /\ p.timerType \in {BREAK, LONG_BREAK}
                /\ state'.timerType = p.timerType
                /\ state'.timeLeft = ConfiguredDuration(p.timerType)
                /\ state'.isRunning /\ state'.hasStarted /\ ~state'.hasCompleted
                /\ state'.activeTaskId = NullId
                /\ state'.startTime = p.startTime
                /\ state'.expectedEndTime
                      = p.startTime + ConfiguredDuration(p.timerType)
                /\ state'.sessionsCompleted = state.sessionsCompleted]_vars

\* C27 happens: a long break was started at T, after a session was counted,
\* and rendered at a later time
C27_Witness ==
    /\ state.isRunning /\ state.hasStarted
    /\ state.timerType = LONG_BREAK
    /\ state.activeTaskId = NullId
    /\ state.sessionsCompleted >= 1
    /\ state.startTime < now
    /\ state.timeLeft = userSettings.longBreakDuration
    /\ state.expectedEndTime = state.startTime + userSettings.longBreakDuration
    /\ queue = <<>>

\* C28: in every reachable timer state, also between the actions of one
\* render, a running timer has its expectedEndTime set.
C28_RunningHasDeadline ==
    /\ state.isRunning => state.expectedEndTime # NullTime
    /\ \A k \in 1 .. Len(queue) :
          LET s == Pending(SubSeq(queue, 1, k), state, now)
          IN s.isRunning => s.expectedEndTime # NullTime

\* C28 happens: a break was started, paused and resumed, and is running
\* with a deadline
C28_Witness ==
    /\ state.isRunning
    /\ state.timerType = BREAK
    /\ state.activeTaskId # NullId
    /\ state.expectedEndTime # NullTime
    /\ hist.works >= 1

\* a step in which the deadline check runs on a running timer
ChecksDeadline ==
    /\ UpdateTimer
    /\ state.isRunning
    /\ ~Falsy(state.startTime) /\ ~Falsy(state.expectedEndTime)

\* C29: the deadline check takes the remaining time from the deadline: a
\* check that runs at time now, however long after the one before, sets
\* timeLeft = max(0, expectedEndTime - now) and leaves expectedEndTime.
C29_CheckDerivesFromDeadline ==
    [][ChecksDeadline =>
          LET s == Pending(queue', state', now')
              remaining == state.expectedEndTime - now
          IN /\ s.timeLeft = IF remaining > 0 THEN remaining ELSE 0
             /\ s.expectedEndTime = state.expectedEndTime]_vars

\* the same for the checks that run before the deadline
CheckBeforeDeadlineDerives ==
    [][(ChecksDeadline /\ now < state.expectedEndTime) =>
          LET s == Pending(queue', state', now')
          IN /\ s.timeLeft = state.expectedEndTime - now
             /\ s.expectedEndTime = state.expectedEndTime]_vars

\* no deadline check is scheduled while the rendered timer is not running
NoCheckScheduledWhenStopped == (queue = <<>> /\ ~state.isRunning) => ~raf

\* a check has dispatched a new timeLeft only for a running timer
TimeLeftFromRunningCheck ==
    \A k \in 1 .. Len(queue) :
        queue[k].type = "UPDATE_TIME_LEFT" => state.isRunning

\* a step of a timer that is not running: the callback is not invoked, and
\* timeLeft changes only by the user's resetTimer or switchTimer
StoppedStepHasNoCheckEffect ==
    ~state.isRunning =>
        /\ hist'.fired <= hist.fired
        /\ state'.timeLeft # state.timeLeft =>
              \E k \in 1 .. Len(queue) : queue[k].type = "UPDATE_TIMER_STATE"

\* C30: after pauseTimer or resetTimer no scheduled deadline check is left:
\* while isRunning is false the completion callback is not invoked and no
\* check changes timeLeft, also when the old deadline passes meanwhile.
C30_NoDanglingCheck ==
    /\ [](NoCheckScheduledWhenStopped /\ TimeLeftFromRunningCheck)
    /\ [][StoppedStepHasNoCheckEffect]_vars

\* C30 happens: the timer was paused before its deadline, the deadline has
\* passed, and the callback was not invoked
C30_Witness ==
    /\ isPaused /\ queue = <<>>
    /\ hist.pausedAt # NullTime
    /\ hist.pausedAt < state.expectedEndTime
    /\ now > state.expectedEndTime
    /\ hist.fired = 0
    /\ ~raf

----------------------------------------------------------------------------
(* The initial state and the task bound to the timer *)

\* the render that follows the effect's first run once the settings have loaded
InitialLoadRenders ==
    /\ Render
    /\ state = initialState
    /\ queue = <<InitialLoad(userSettings)>>

\* the timer a loaded page shows before any click
LoadedTimer ==
    /\ state.timerType = WORK
    /\ ~state.isRunning /\ ~state.hasStarted
    /\ state.sessionsCompleted = 0
    /\ state.activeTaskId = NullId

\* C31: once the user settings have loaded, the timer is in WORK, not running,
\* not started, with no session completed, and timeLeft is the configured
\* work duration: the number of milliseconds resetTimer sets in WORK.
C31_InitialState ==
    [][InitialLoadRenders =>
          /\ LoadedTimer'
          /\ state'.timeLeft = ResetTimerPayload(Closure(state')).timeLeft]_vars

\* the same without the comparison of timeLeft with resetTimer's
InitialLoadKeepsPhase == [][InitialLoadRenders => LoadedTimer']_vars

\* a work timer that runs has a task bound to it
WorkRunsBound(s) == (s.timerType = WORK /\ s.isRunning) => s.activeTaskId # NullId

\* C32: a WORK timer never runs without a bound task: whatever the user
\* clicks (start, pause, resume, stop, done, skip) and whenever the selected
\* task appears or disappears, timerType = WORK and isRunning = true imply
\* that activeTaskId is set, in the rendered state and in every state the
\* dispatched actions lead to.
C32_WorkTimerHasTask ==
    \A k \in 0 .. Len(queue) : WorkRunsBound(Pending(SubSeq(queue, 1, k), state, now))

\* C32 happens: a work timer was started on a task, the task list was then
\* emptied, and the timer still runs, bound to the task it was started on
C32_Witness ==
    /\ state.timerType = WORK /\ state.isRunning
    /\ queue = <<>>
    /\ selectedTask = NullId
    /\ state.activeTaskId # NullId

\* a work timer runs bound to a task that is no longer the selected one,
\* because a new task was put at the head of the list
WorkRunsOnOtherTask ==
    /\ state.timerType = WORK /\ state.isRunning
    /\ selectedTask \in UiIds
    /\ state.activeTaskId \notin UiIds \cup {NullId}

\* C33: no task is bound during a break: whenever timerType is BREAK or
\* LONG_BREAK, activeTaskId is null, also after the break was paused and
\* resumed.
C33_NoTaskDuringBreak == state.timerType # WORK => state.activeTaskId = NullId

\* a break that runs for the first time has no task
StartedBreakHasNoTask ==
    [][(Render /\ Len(queue) = 1 /\ Head(queue).type = "START_BREAK")
          => state'.activeTaskId = NullId]_vars

----------------------------------------------------------------------------
(* Properties of the open request (SpecOpenLive) *)

\* the caller waits for its initDB() call
OpenWaits(c) == requests[c].open \in {"pending", "blocked"}

\* C34: opening the store always terminates for the caller: an initDB() call
\* that waits, also one the environment blocks (another tab holds the store
\* at a lower version) or denies, is settled in the end, and with it the
\* operation built on it; it does not stay pending forever.
C34_OpenTerminates ==
    \A c \in Callers :
        OpenWaits(c) ~> requests[c].operation \in {"resolved", "rejected"}

\* an open that the environment denies, or that finds a higher stored
\* version, rejects, and so does the operation built on it
DeniedOpenRejects ==
    \A c \in Callers :
        (requests[c].open = "pending" /\ (requests[c].denied \/ dbVersion > DB_VERSION))
            ~> requests[c].operation = "rejected"

\* a rejected open is not tried again: it stays rejected until its caller
\* has the rejection
NoSilentRetry ==
    [][\A c \in Callers :
          requests[c].open = "rejected" =>
              \/ requests'[c].open = "rejected"
              \/ requests[c].operation = "rejected" /\ requests'[c] = NoRequest]_vars

----------------------------------------------------------------------------
(* The service worker with its keep-alive loop *)

NextKeepAlive ==
    \/ RequestJob
    \/ ResumeCall
    \/ RunTimer
    \/ PassTime
    \/ KeepAliveTick /\ UNCHANGED <<clockVars, dbVars, timerVars, settingsVars, schemaVars>>
    \/ KeepAliveResume /\ UNCHANGED <<clockVars, dbVars, timerVars, settingsVars, schemaVars>>

SpecKeepAlive == InitSW /\ [][NextKeepAlive]_vars

----------------------------------------------------------------------------
(* Properties of the service worker's loops (SpecSW, SpecKeepAlive) *)

\* the ids of the stored jobs with status active
ActiveJobIds == {id \in JobIds : jobs[id].status = "active"}

\* a chunk check is scheduled or under way
ChunkCheckScheduled ==
    \/ \E tm \in BagToSet(timers) : tm.kind = "chunk"
    \/ runs # EmptyBag

\* C35: whenever a wait job with status active is in the store, a next chunk
\* check is scheduled (or one is under way): the chain of checks stops only
\* when a check finds no active job, and an error while one job is handled
\* does not end it while active jobs remain.
C35_ChunkChainContinues == ActiveJobIds # {} => ChunkCheckScheduled

\* the same as long as no step of a completion has failed
ChunkChainWithoutErrors ==
    (swFaults = 0 /\ ActiveJobIds # {}) => ChunkCheckScheduled

\* at most one keep-alive interval is armed, and it is the one in keepAliveInterval
OneKeepAliveLoop ==
    /\ keepAlive.armed <= 1
    /\ keepAlive.interval <=> keepAlive.armed = 1

\* a tick that finds no active job stops the loop
EmptyTickStops ==
    [][(KeepAliveResume /\ keepAlive.tick = "empty") => keepAlive'.armed = 0]_vars

\* C36: the keep-alive loop runs exactly while active jobs exist: at most one
\* loop is armed at a time, and whenever a job whose createWaitJob has
\* returned is still active a loop is armed, also when the job was created
\* while a tick that found no active jobs was in progress.
C36_KeepAliveWhileActive ==
    /\ OneKeepAliveLoop
    /\ ActiveJobIds # {} => keepAlive.armed = 1

----------------------------------------------------------------------------
(* Properties of the order of the active tasks (SpecDB) *)

\* no two active tasks have the same order
DistinctOrders ==
    \A r1 \in tasks, r2 \in tasks : r1.order = r2.order => r1.id = r2.id

\* C37: after any sequence of add, delete and completeOnePomodoro the order
\* values of the active tasks are exactly 0, 1, ..., n-1, where n is the
\* number of active tasks: no gaps and no duplicates.
C37_DenseOrder ==
    ~TxActive => {r.order : r \in tasks} = 0 .. (Cardinality(tasks) - 1)

----------------------------------------------------------------------------
(* Properties of the duration of a completed work phase (Spec) *)

\* handleDone of a work phase starts completeOnePomodoro in slot i
DoneStartsCall(i) ==
    /\ calls[i].pc = "free"
    /\ calls'[i].pc # "free"
    /\ calls'[i].owner = "timer"

\* a work phase that ran to its deadline is recorded with the work duration
DeadlineDurationIsWork ==
    [][\A i \in CallSlots : (DoneStartsCall(i) /\ state.hasCompleted)
          => calls'[i].duration = userSettings.workDuration]_vars

\* C38: the duration handleDone passes for the completed record of a work
\* phase lies between 0 and the configured work duration: the work duration
\* after the deadline, workDuration - timeLeft after DONE, for every timeLeft
\* the timer can hold, also the one the initial load sets.
C38_DurationInRange ==
    [][\A i \in CallSlots : DoneStartsCall(i)
          => calls'[i].duration \in 0 .. userSettings.workDuration]_vars

----------------------------------------------------------------------------
(* Properties of the task a work phase completes (SpecTasks) *)

\* the records of store a whose id is not taskId are the same in store b
SameOtherTasks(a, b, taskId) ==
    /\ \A r \in a : r.id # taskId => r \in b
    /\ \A r \in b : r.id # taskId => r \in a

\* C39: the completion of a work phase calls completeOnePomodoro with the
\* task bound to the timer (activeTaskId), whichever task is selected in the
\* list at that time, and the transaction of that call changes the record of
\* no other active task.
C39_CompletesBoundTask ==
    [][\A i \in CallSlots :
          /\ DoneStartsCall(i) => calls'[i].taskId = state.activeTaskId
          /\ (calls[i].owner = "timer" /\ tasks' # tasks /\ TxActive)
                => SameOtherTasks(tasks, tasks', calls[i].taskId)]_vars

\* a completion for t1 has resolved and has changed t1's record while the
\* selected task is another one, whose record is in the store
C39_Witness ==
    \E i \in CallSlots :
        /\ calls[i].pc = "done" /\ calls[i].owner = "timer"
        /\ calls[i].result = "resolved"
        /\ calls[i].taskId = "t1"
        /\ selectedTask = "n1"
        /\ HasId(tasks, "d1")
        /\ tasks # calls[i].preTasks

====
